---- MODULE Spec2Model ----
(***************************************************************************)
(* Session engine of the auscultation quiz bot (src/bot.py): the per-user  *)
(* UserSession (in-memory data dict + QuestionSelector), its session file, *)
(* the global session registry and the handlers that act on them.          *)
(***************************************************************************)
EXTENDS Integers, Sequences, FiniteSets, TLC

\* ---------------------------------------------------------------- bounds
\* Largest number of answers recorded in one user's theme_stats; an answer
\* that would record one more is not offered to the model.
MaxAnswers == 1
\* Largest number of handler runs in which session-file writes fail.
MaxFaults == 1
\* Largest number of process restarts in one run.
MaxRestarts == 1

\* ------------------------------------------------------- program constants
\* default of smart_get_question(num_options=4)
NumOptions == 4

\* Python None / an absent dict key
None == "None"

Users == {"u1"}

\* self.themes of QuestionSelector: tag -> name, ordered questions.
\* t1.q1 has a wrong_answers pool smaller than num_options-1, t1.q2 has no
\* pool; t2 is a single-question theme whose question id collides with t1.q1.
Themes ==
  [t1 |-> [name |-> "T1", questions |-> <<
              [id |-> 1, correct_answer |-> "A", has_wrong |-> TRUE,
               wrong_answers |-> <<"X", "Y">>],
              [id |-> 2, correct_answer |-> "B", has_wrong |-> FALSE,
               wrong_answers |-> <<>>] >>],
   t2 |-> [name |-> "T2", questions |-> <<
              [id |-> 1, correct_answer |-> "C", has_wrong |-> FALSE,
               wrong_answers |-> <<>>] >>]]

ThemeTags == DOMAIN Themes

\* theme tags a "theme:<tag>" callback can carry (a stale button may carry a
\* tag that is no longer in self.themes)
CallbackTags == ThemeTags \cup {"bogus"}

QuestionIds == {1, 2}

\* ------------------------------------------------------------ data shapes
EmptyDict == [x \in {} |-> 0]

\* data.get('last_question') is None
NoQuestion == [question_id |-> 0, options |-> <<>>, correct_option |-> 0,
               theme |-> None]

\* self.data = {}
EmptyData == [has_user |-> FALSE, current_theme |-> None,
              last_question |-> NoQuestion, theme_stats |-> EmptyDict]

NoFile == [kind |-> "none", data |-> EmptyData]
\* a session file that was opened for writing and not completely written
Truncated == [kind |-> "truncated", data |-> EmptyData]

\* json.dump(self.data, f): the document holds the data dict
Dump(data) == [kind |-> "doc", data |-> data]

\* json.load(f) in UserSession.__init__; any failure gives {}
LoadFile(file) == IF file.kind = "doc" THEN file.data ELSE EmptyData

\* lines 83-89: TRUE when an exception of open / json.load leaves __init__
\* (`except Exception` catches every one of them)
LoadRaisesUncaught(file) == file.kind = "truncated"

LoadRaises(file) == FALSE

\* a registry slot without a UserSession
NoSession == [present |-> FALSE, data |-> EmptyData, sel |-> None]

\* ------------------------------------------------------------ pure helpers
Min2(a, b) == IF a <= b THEN a ELSE b

\* injective index maps 1..k -> 1..n  (random.sample picks / shuffles)
Injections(k, n) ==
  {f \in [1..k -> 1..n] : \A i, j \in 1..k : i # j => f[i] # f[j]}

\* random.sample(list, k): k elements at distinct positions, any order;
\* k > len(list) raises ValueError (no result)
Sample(list, k) ==
  {[i \in 1..k |-> list[f[i]]] : f \in Injections(k, Len(list))}

\* random.shuffle(options) can leave any permutation; the model draws the
\* permutation from the rotations of the list, which put every element at
\* every position
Shuffles(list) ==
  LET n == Len(list)
  IN {[i \in 1..n |-> list[((i + r - 1) % n) + 1]] : r \in 0..(n - 1)}

\* options.index(x), the 0-based position
IndexOfZeroBased(list, x) ==
  (CHOOSE i \in 1..Len(list) :
      list[i] = x /\ \A j \in 1..(i - 1) : list[j] # x) - 1

\* options.index(x) + 1
IndexOf(list, x) ==
  CHOOSE i \in 1..Len(list) :
      list[i] = x /\ \A j \in 1..(i - 1) : list[j] # x

\* str(question_id)
Str(n) == ToString(n)

\* question_stats of a theme as seen by .get(..., {})
QuestionStatsOf(data, theme) ==
  IF theme \in DOMAIN data.theme_stats
    THEN data.theme_stats[theme].question_stats
    ELSE EmptyDict

CorrectOf(qstats, qid) ==
  IF Str(qid) \in DOMAIN qstats THEN qstats[Str(qid)].correct ELSE 0

\* number of answers recorded in a data dict
TotalAnswers(data) ==
  LET ts == data.theme_stats
      RECURSIVE Sum(_)
      Sum(S) == IF S = {} THEN 0
                ELSE LET t == CHOOSE x \in S : TRUE
                     IN ts[t].total + Sum(S \ {t})
  IN Sum(DOMAIN ts)


\* ------------------------------------------------- UserSession: persistence
SaveOutcomes == {"ok", "fail", "trunc"}

\* save_session: open(session_file, 'w') truncates the file, json.dump then
\* writes the document; every exception is logged and swallowed.
\*   "ok"    the document is written completely
\*   "fail"  an exception before the file is opened (mkdir / open fails)
\*   "trunc" an exception after the file was opened and before the
\*           document is complete
SaveSession(data, file, o) ==
  CASE o = "ok" -> Dump(data)
    [] o = "fail" -> file
    [] o = "trunc" -> Truncated

Nf(o) == IF o = "ok" THEN 0 ELSE 1

\* a handler's view of one user: the UserSession fields, the session file,
\* the number of failed writes so far in the handler and whether building
\* the session raised
World(sess, file) == [data |-> sess.data, sel |-> sess.sel, file |-> file,
                      nf |-> 0, init_raised |-> FALSE]

\* a save_session whose failure would undo the change in memory
SaveWRollsBack(w, o) ==
  [w EXCEPT !.file = SaveSession(w.data, w.file, o),
            !.nf = @ + Nf(o),
            !.data = IF o = "ok" THEN @ ELSE LoadFile(w.file)]

SaveW(w, o) == [w EXCEPT !.file = SaveSession(w.data, w.file, o),
                         !.nf = @ + Nf(o)]

\* QuestionSelector.set_theme
SelectorSetTheme(sel, theme_tag) ==
  IF theme_tag \in ThemeTags THEN theme_tag ELSE sel

\* UserSession.__init__ followed by the theme restore of get_session
NewUserSession(file, o) ==
  LET d0 == IF file.kind = "none" THEN EmptyData ELSE LoadFile(file)
      d1 == [d0 EXCEPT !.has_user = TRUE]
  IN [data |-> d1,
      sel |-> IF d1.current_theme # None
                THEN SelectorSetTheme(None, d1.current_theme) ELSE None,
      file |-> SaveSession(d1, file, o),
      nf |-> Nf(o),
      init_raised |-> file.kind # "none" /\ LoadRaises(file)]

\* get_session: the registry's session, built from the file when absent
GetSession(sess, file, o) ==
  IF sess.present THEN World(sess, file) ELSE NewUserSession(file, o)

\* ------------------------------------------------ UserSession: data methods
SetLastQuestion(data, question) == [data EXCEPT !.last_question = question]

HasLastQuestion(data) == data.last_question # NoQuestion

DelLastQuestion(data) == [data EXCEPT !.last_question = NoQuestion]

SetTheme(data, theme) == [data EXCEPT !.current_theme = theme]

\* update_question_stats, lines 152-157: create the missing dicts
InitThemeStats(data, theme) ==
  IF theme \in DOMAIN data.theme_stats THEN data
  ELSE [data EXCEPT !.theme_stats =
          (theme :> [question_stats |-> EmptyDict, total |-> 0,
                     correct |-> 0]) @@ @]

\* lines 162-166: question_stats[q_id]['total'] += 1
IncQuestionTotal(data, theme, question_id) ==
  LET k == Str(question_id)
      qs0 == data.theme_stats[theme].question_stats
      qs1 == IF k \in DOMAIN qs0 THEN qs0
             ELSE (k :> [total |-> 0, correct |-> 0]) @@ qs0
  IN [data EXCEPT !.theme_stats[theme].question_stats =
        [qs1 EXCEPT ![k].total = @ + 1]]

\* line 167: theme_stats['total'] += 1
IncThemeTotalSkipped(data, theme) == data

IncThemeTotal(data, theme) ==
  [data EXCEPT !.theme_stats[theme].total = @ + 1]

\* lines 169-171
IncCorrect(data, theme, question_id, is_correct) ==
  IF is_correct
    THEN [data EXCEPT
            !.theme_stats[theme].question_stats[Str(question_id)].correct = @ + 1,
            !.theme_stats[theme].correct = @ + 1]
    ELSE data

UpdateQuestionStats(data, question_id, is_correct, theme) ==
  IncCorrect(
    IncThemeTotal(
      IncQuestionTotal(InitThemeStats(data, theme), theme, question_id),
      theme),
    theme, question_id, is_correct)

\* get_statistics: the themes with at least one answer, each with its
\* counters and those of its answered questions (the percentages and the
\* order by percentage are derived from these counters)
GetStatistics(data) ==
  {[theme_tag |-> th,
    total |-> data.theme_stats[th].total,
    correct |-> data.theme_stats[th].correct,
    questions |->
      LET qst == data.theme_stats[th].question_stats
          qs == Themes[th].questions
      IN {[question |-> qs[i].correct_answer,
           total |-> qst[Str(qs[i].id)].total,
           correct |-> qst[Str(qs[i].id)].correct] :
            i \in {j \in 1..Len(qs) :
                     /\ Str(qs[j].id) \in DOMAIN qst
                     /\ qst[Str(qs[j].id)].total > 0}}] :
   th \in {t \in ThemeTags : /\ t \in DOMAIN data.theme_stats
                             /\ data.theme_stats[t].total > 0}}

\* --------------------------------------------------- smart_get_question
\* lines 255-265: the questions with the fewest correct answers
CandidateQuestions(questions, question_stats) ==
  LET correct(i) == CorrectOf(question_stats, questions[i].id)
      min_correct == CHOOSE m \in {correct(i) : i \in 1..Len(questions)} :
                        \A i \in 1..Len(questions) : m <= correct(i)
  IN {i \in 1..Len(questions) : correct(i) = min_correct}

\* lines 279 and 285: correct answers of the theme's other questions
OtherAnswers(questions, q) ==
  LET others == SelectSeq(questions, LAMBDA x : x.id # q.id)
  IN [i \in 1..Len(others) |-> others[i].correct_answer]

\* the wrong answers put next to the correct one; the empty set stands for
\* the ValueError of random.sample (sample larger than population)
SelectedWrong(questions, q) ==
  LET other_answers == OtherAnswers(questions, q)
  IN IF q.has_wrong
       THEN IF Len(q.wrong_answers) >= NumOptions - 1
              THEN Sample(q.wrong_answers, NumOptions - 1)
              ELSE {q.wrong_answers \o r :
                      r \in Sample(other_answers,
                                   (NumOptions - 1) - Len(q.wrong_answers))}
       ELSE Sample(other_answers, Min2(Len(other_answers), NumOptions - 1))

RaisedValueError == [raised |-> TRUE, question |-> NoQuestion]

QuestionsFor(questions, theme, q) ==
  LET sw == SelectedWrong(questions, q)
  IN IF sw = {} THEN {RaisedValueError}
     ELSE {[raised |-> FALSE,
            question |-> [question_id |-> q.id, options |-> o,
                          correct_option |-> IndexOf(o, q.correct_answer),
                          theme |-> theme]] :
             o \in UNION {Shuffles(w \o <<q.correct_answer>>) : w \in sw}}

\* smart_get_question of a session whose question selector holds `themes`
SmartGetQuestionIn(themes, data) ==
  LET current_theme == data.current_theme
  IN IF current_theme = None THEN {RaisedValueError}
     ELSE IF current_theme \notin DOMAIN themes THEN {RaisedValueError}
     ELSE IF Len(themes[current_theme].questions) = 0 THEN {RaisedValueError}
     ELSE LET questions == themes[current_theme].questions
          IN UNION {QuestionsFor(questions, current_theme, questions[i]) :
                      i \in CandidateQuestions(
                               questions,
                               QuestionStatsOf(data, current_theme))}

SmartGetQuestion(data) == SmartGetQuestionIn(Themes, data)


\* ----------------------------------------------------------------- handlers
\* Each handler maps the world it finds to the set of worlds it can leave,
\* with the views sent to the user (reply) and whether an exception reached
\* the handler's except clause (raised).

Result(w, reply, raised) == [w |-> w, reply |-> reply, raised |-> raised]

\* generate_and_send_question
GenerateAndSendQuestion(w, o) ==
  IF w.sel = None
    THEN {Result(w, <<"theme_prompt">>, FALSE)}
    ELSE {IF r.raised
            THEN Result(w, <<"generation_error">>, FALSE)
            ELSE Result(SaveW([w EXCEPT !.data = SetLastQuestion(@, r.question)], o),
                        <<"question">>, FALSE) :
          r \in SmartGetQuestion(w.data)}

\* reset_session: unlink the file (a failure is logged and swallowed, the
\* file then stays), self.data = {}, save_session
ResetSession(w, unlinked, o) ==
  SaveW([w EXCEPT !.file = IF unlinked THEN NoFile ELSE @,
                  !.data = EmptyData], o)

\* handle_start
HandleStart(w, unlinked, o) ==
  {Result(ResetSession(w, unlinked, o), <<"welcome">>, FALSE)}

\* a handle_all_messages that issues a question whatever is pending
HandleAllMessagesAlwaysDraws(w, o) == GenerateAndSendQuestion(w, o)

\* handle_all_messages
HandleAllMessages(w, o) ==
  IF HasLastQuestion(w.data)
    THEN {Result(w, <<"use_buttons">>, FALSE)}
    ELSE GenerateAndSendQuestion(w, o)

\* handle_next_callback
HandleNext(w, o) == GenerateAndSendQuestion(w, o)

\* handle_theme_callback for callback data "theme:<tag>"
HandleTheme(w, tag, o1, o2, o3) ==
  IF tag \in ThemeTags
    THEN LET w1 == SaveW([w EXCEPT !.sel = SelectorSetTheme(@, tag),
                                   !.data = SetTheme(@, tag)], o1)
             w2 == SaveW([w1 EXCEPT !.data.has_user = TRUE], o2)
         IN {Result(r.w, <<"theme_selected">> \o r.reply, FALSE) :
               r \in GenerateAndSendQuestion(w2, o3)}
    ELSE {Result(r.w, <<"theme_not_found">> \o r.reply, FALSE) :
            r \in GenerateAndSendQuestion(w, o3)}

\* the check of lines 806-810
IsStaleNoIdCheck(last_question, question_id) == last_question = NoQuestion

IsStale(last_question, question_id) ==
  \/ last_question = NoQuestion
  \/ last_question.question_id # question_id

\* no question matches: next(..., None)
NoExplained == [theme |-> None, index |-> 0]

\* the first question over all themes whose correct_answer is the selected
\* text (the search of get_question_from_themes), the themes other than the
\* current one searched first
ExplainedQuestionAllThemes(themes, sel, selected_answer, question_id) ==
  LET hits == {x \in [theme : DOMAIN themes, index : 1..NumOptions] :
                 /\ x.index <= Len(themes[x.theme].questions)
                 /\ themes[x.theme].questions[x.index].correct_answer
                      = selected_answer}
      first(th) == CHOOSE i \in {x.index : x \in {h \in hits : h.theme = th}} :
                     \A h \in hits : h.theme = th => i <= h.index
      others == {h.theme : h \in {x \in hits : x.theme # sel}}
      th0 == IF others = {} THEN sel ELSE CHOOSE th \in others : TRUE
  IN IF hits = {} THEN NoExplained
     ELSE [theme |-> th0, index |-> first(th0)]

\* lines 831-835: the first question of themes[current_theme] whose
\* correct_answer is the selected text and whose id is not the judged one
ExplainedQuestion(themes, sel, selected_answer, question_id) ==
  LET qs == themes[sel].questions
      hits == {i \in 1..Len(qs) : /\ qs[i].correct_answer = selected_answer
                                  /\ qs[i].id # question_id}
  IN IF hits = {} THEN NoExplained
     ELSE [theme |-> sel, index |-> CHOOSE i \in hits : \A j \in hits : i <= j]

\* line 831: the question whose explanation is shown for the selected text
SelectedAnswerData(sel, selected_answer, question_id) ==
  ExplainedQuestion(Themes, sel, selected_answer, question_id).index

\* lines 812-934: TRUE when an exception is raised before the statistics
\* are updated (IndexError on options[selected_option - 1], KeyError on
\* themes[current_theme], TypeError on 'files' not in None)
JudgeRaises(w, last_question, question_id, selected_option) ==
  \/ selected_option > Len(last_question.options)
  \/ w.sel = None
  \/ /\ selected_option # last_question.correct_option
     /\ SelectedAnswerData(w.sel,
                           last_question.options[selected_option],
                           question_id) = 0

\* clear_last_question
ClearLastQuestion(w, o) ==
  IF HasLastQuestion(w.data)
    THEN SaveW([w EXCEPT !.data = DelLastQuestion(@)], o)
    ELSE w

\* handle_answer_callback for callback data "answer:<question_id>:<option>"
HandleAnswer(w, question_id, selected_option, o1, o2) ==
  LET last_question == w.data.last_question
  IN IF IsStale(last_question, question_id)
       THEN {Result(w, <<"stale">>, FALSE)}
     ELSE IF JudgeRaises(w, last_question, question_id, selected_option)
       THEN {Result(w, <<"error">>, TRUE)}
     ELSE LET is_correct == selected_option = last_question.correct_option
              w1 == SaveW([w EXCEPT !.data =
                             UpdateQuestionStats(@, question_id, is_correct,
                                                 last_question.theme)], o1)
          IN {Result(ClearLastQuestion(w1, o2), <<"verdict">>, FALSE)}

\* get_global_stats(theme): one entry per session file that can be read and
\* holds answers (of the theme, or of all themes when theme is None); the
\* order of the entries (by correct, then total) only places them in the text
GetGlobalStats(files, theme) ==
  LET Sum(ts, field) ==
        LET RECURSIVE S(_)
            S(T) == IF T = {} THEN 0
                    ELSE LET t == CHOOSE x \in T : TRUE
                         IN ts[t][field] + S(T \ {t})
        IN S(DOMAIN ts)
      total(u) ==
        LET ts == files[u].data.theme_stats
        IN IF theme # None
             THEN IF theme \in DOMAIN ts THEN ts[theme].total ELSE 0
             ELSE Sum(ts, "total")
      correct(u) ==
        LET ts == files[u].data.theme_stats
        IN IF theme # None
             THEN IF theme \in DOMAIN ts THEN ts[theme].correct ELSE 0
             ELSE Sum(ts, "correct")
  IN {[user_id |-> u, total |-> total(u), correct |-> correct(u)] :
        u \in {x \in DOMAIN files : /\ files[x].kind = "doc"
                                    /\ total(x) > 0}}

\* handle_stats_callback, without its get_session: nothing is written
HandleStatsDropsQuestion(w, files) ==
  {Result([w EXCEPT !.data = DelLastQuestion(@)], <<"stats_view">>, FALSE)}

HandleStats(w, files) ==
  LET stats == GetStatistics(w.data)
      current_theme == w.data.current_theme
      global_stats == GetGlobalStats(files, current_theme)
  IN IF \E theme \in stats : theme.theme_tag = current_theme
       THEN {Result(w, <<"stats_view">>, FALSE)}
       ELSE {Result(w, <<"no_theme_stats">>, FALSE)}

\* handle_global_stats_callback, without its get_session; line 637 looks the
\* session's theme up in the themes (KeyError when it is None)
HandleGlobalStats(w, files) ==
  LET current_theme == w.data.current_theme
      stats == GetGlobalStats(files, current_theme)
  IN IF stats = {}
       THEN {Result(w, <<"no_leaderboard">>, FALSE)}
     ELSE IF current_theme \notin ThemeTags
       THEN {Result(w, <<"error">>, TRUE)}
     ELSE {Result(w, <<"leaderboard">>, FALSE)}

\* -------------------------------------------------------------------- state
VARIABLES
  sessions,   \* the registry: user -> UserSession (data, selector theme)
  disk,       \* user -> session file
  running,    \* the process is up and polling
  faults,     \* handler runs with failed session-file writes so far
  restarts,   \* process restarts so far
  last,       \* the last action handled and what was replied
  pc,         \* worker thread -> its position in the handler it runs
  loc,        \* worker thread -> the handler's local variables
  lock,       \* user -> the thread holding UserSession.lock, or "free"
  issuedAt,   \* history: user -> answers recorded in the session when its
              \* latest question was issued by set_last_question
  draw        \* one call of a function observed on its own: its inputs and
              \* what it returned (smart_get_question: the themes of the
              \* question selector and the session data)

vars == <<sessions, disk, running, faults, restarts, last, pc, loc, lock,
          issuedAt, draw>>

\* the worker threads of the bot (TeleBot runs its handlers on a pool)
Threads == {"w1", "w2"}

NoLoc == [user |-> None, question_id |-> 0, option |-> 0,
          last_question |-> NoQuestion, detached |-> FALSE]

ThreadsIdle ==
  /\ pc = [t \in Threads |-> "idle"]
  /\ loc = [t \in Threads |-> NoLoc]
  /\ lock = [u \in Users |-> "free"]

\* no call of smart_get_question is observed
NoDraw == [themes |-> Themes, data |-> EmptyData, drawn |-> FALSE,
           result |-> RaisedValueError]

\* built: what get_session found for the user ("memory": a session of the
\* registry; otherwise the kind of session file the session was built from)
\* fault: the failure injected into the action ("none" when there is
\* none); escaped: an exception left the handler uncaught; api_up: a call of
\* the Telegram API made after the injected failure succeeds
NoAction == [op |-> "none", user |-> None, question_id |-> 0, option |-> 0,
             tag |-> None, reply |-> <<>>, raised |-> FALSE, built |-> None,
             fault |-> "none", escaped |-> FALSE, api_up |-> TRUE]

Init ==
  /\ sessions = [u \in Users |-> NoSession]
  /\ disk = [u \in Users |-> NoFile]
  /\ running = TRUE
  /\ faults = 0
  /\ restarts = 0
  /\ last = NoAction
  /\ ThreadsIdle
  /\ issuedAt = [u \in Users |-> 0]
  /\ draw = NoDraw

\* the session data an action of user u works on: the registry's session,
\* or the one get_session builds from the file
Eff(u) == IF sessions[u].present THEN sessions[u].data
          ELSE [LoadFile(disk[u]) EXCEPT !.has_user = TRUE]

EffSel(u) == GetSession(sessions[u], disk[u], "ok").sel

\* a handler's result becomes the new state; when get_session raised, the
\* handler ends there and no session is registered
Commit(u, r, act) ==
  LET done == [act EXCEPT !.user = u,
                          !.built = IF sessions[u].present THEN "memory"
                                    ELSE disk[u].kind]
  IN IF r.w.init_raised
       THEN /\ last' = [done EXCEPT !.raised = TRUE]
            /\ UNCHANGED <<sessions, disk, running, faults, restarts, pc,
                           loc, lock, issuedAt, draw>>
       ELSE /\ faults' = faults + (IF r.w.nf > 0 THEN 1 ELSE 0)
            /\ faults' <= MaxFaults
            /\ sessions' = [sessions EXCEPT ![u] =
                              [present |-> TRUE, data |-> r.w.data,
                               sel |-> r.w.sel]]
            /\ disk' = [disk EXCEPT ![u] = r.w.file]
            /\ last' = [done EXCEPT !.reply = r.reply, !.raised = r.raised]
            /\ issuedAt' = [issuedAt EXCEPT ![u] =
                              IF \E i \in 1..Len(r.reply) :
                                   r.reply[i] = "question"
                                THEN TotalAnswers(r.w.data) ELSE @]
            /\ UNCHANGED <<running, restarts, pc, loc, lock, draw>>

\* the outcomes of the k save_session calls of one handler (the first is the
\* save of get_session, which happens only when the session is built): the
\* storage can become unavailable while the handler runs and stay so until
\* it ends, the first write after that either not opening the file or
\* leaving it incomplete; writes fail in at most MaxFaults handler runs
Outcomes(u, k) ==
  {v \in [1..k -> SaveOutcomes] :
     /\ \E n \in 0..k :
          /\ \A i \in 1..n : v[i] = "ok"
          /\ \A i \in (n + 1)..k : v[i] # "ok"
          /\ \A i \in (n + 2)..k : v[i] = "fail"
     /\ faults >= MaxFaults => \A i \in 1..k : v[i] = "ok"
     /\ sessions[u].present => v[1] = "ok"}

Start(u) ==
  /\ running
  /\ \E v \in Outcomes(u, 2), unlinked \in BOOLEAN :
       \E r \in HandleStart(GetSession(sessions[u], disk[u], v[1]),
                            unlinked, v[2]) :
         /\ v[2] = "ok" => unlinked
         /\ Commit(u, r, [NoAction EXCEPT !.op = "start"])

Message(u) ==
  /\ running
  /\ \E v \in Outcomes(u, 2) :
       \E r \in HandleAllMessages(GetSession(sessions[u], disk[u], v[1]),
                                  v[2]) :
         Commit(u, r, [NoAction EXCEPT !.op = "message"])

NextQuestion(u) ==
  /\ running
  /\ \E v \in Outcomes(u, 2) :
       \E r \in HandleNext(GetSession(sessions[u], disk[u], v[1]), v[2]) :
         Commit(u, r, [NoAction EXCEPT !.op = "next"])

ChangeTheme(u) ==
  /\ running
  /\ \E tag \in CallbackTags :
     \E v \in Outcomes(u, 4) :
       \E r \in HandleTheme(GetSession(sessions[u], disk[u], v[1]), tag,
                            v[2], v[3], v[4]) :
         Commit(u, r, [NoAction EXCEPT !.op = "theme", !.tag = tag])

\* the option of a callback does not reach the handler's code when the
\* callback is for another question than the pending one (lines 806-810
\* return first): such callbacks are drawn with option 1 only
SubmitAnswer(u) ==
  /\ running
  /\ \E question_id \in QuestionIds, selected_option \in 1..NumOptions :
     /\ Eff(u).last_question.question_id # question_id => selected_option = 1
     /\ \E v \in Outcomes(u, 3) :
       \E r \in HandleAnswer(GetSession(sessions[u], disk[u], v[1]),
                             question_id, selected_option, v[2], v[3]) :
         /\ TotalAnswers(r.w.data) <= MaxAnswers
         /\ Commit(u, r, [NoAction EXCEPT !.op = "answer",
                                          !.question_id = question_id,
                                          !.option = selected_option])

\* validate_json_files(SESSIONS_DIR) of __main__: an undecodable session
\* file makes the start-up exit
StartupOk == \A u \in Users : disk[u].kind # "truncated"

\* the process is restarted between two actions (hot reload, supervisor)
Restart ==
  /\ running
  /\ restarts < MaxRestarts
  /\ restarts' = restarts + 1
  /\ sessions' = [u \in Users |-> NoSession]
  /\ running' = StartupOk
  /\ last' = [NoAction EXCEPT !.op = "restart"]
  /\ UNCHANGED <<disk, faults, pc, loc, lock, issuedAt, draw>>

Next ==
  \/ \E u \in Users : Start(u)
  \/ \E u \in Users : Message(u)
  \/ \E u \in Users : NextQuestion(u)
  \/ \E u \in Users : ChangeTheme(u)
  \/ \E u \in Users : SubmitAnswer(u)
  \/ Restart

Spec == Init /\ [][Next]_vars

\* the handlers in one run of the process, with no restart: every session
\* stays in the registry once it is there
NextKept ==
  \/ \E u \in Users : Start(u)
  \/ \E u \in Users : Message(u)
  \/ \E u \in Users : NextQuestion(u)
  \/ \E u \in Users : ChangeTheme(u)
  \/ \E u \in Users : SubmitAnswer(u)

SpecKept == Init /\ [][NextKept]_vars


\* ------------------------------------------------ handlers, step by step
\* The handlers as the worker threads run them: one step per session method
\* (each takes and releases UserSession.lock), update_question_stats one
\* step per statement group while it holds the lock.

\* session data with up to n answers already judged: every judged answer
\* goes through theme choice, smart_get_question and handle_answer_callback
AnsweredOnce(data) ==
  LET Judged(th) ==
        UNION {HandleAnswer([data |-> SetLastQuestion(SetTheme(data, th),
                                                      r.question),
                             sel |-> th, file |-> NoFile, nf |-> 0,
                             init_raised |-> FALSE],
                            r.question.question_id, opt, "ok", "ok") :
                 opt \in 1..NumOptions,
                 r \in {x \in SmartGetQuestion(SetTheme(data, th)) :
                          ~x.raised}}
  IN {r2.w.data : r2 \in {x \in UNION {Judged(th) : th \in ThemeTags} :
                             x.reply = <<"verdict">>}}

RECURSIVE AnsweredUpTo(_)
AnsweredUpTo(n) ==
  IF n = 0 THEN {[EmptyData EXCEPT !.has_user = TRUE]}
  ELSE LET prev == AnsweredUpTo(n - 1)
       IN prev \cup UNION {AnsweredOnce(d) : d \in prev}

\* Largest number of answers judged before the observed handlers start.
MaxPrior == 1

\* a user with a theme selected and a question pending, saved on disk
InitSteps ==
  /\ \E d0 \in AnsweredUpTo(MaxPrior), th \in ThemeTags :
       \E r \in {x \in SmartGetQuestion(SetTheme(d0, th)) : ~x.raised} :
         LET d == SetLastQuestion(SetTheme(d0, th), r.question)
         IN /\ sessions = [u \in Users |->
                             [present |-> TRUE, data |-> d, sel |-> th]]
            /\ disk = [u \in Users |-> Dump(d)]
            /\ issuedAt = [u \in Users |-> TotalAnswers(d)]
  /\ running = TRUE
  /\ faults = 0
  /\ restarts = 0
  /\ last = NoAction
  /\ ThreadsIdle
  /\ draw = NoDraw

SetPc(t, label) == pc' = [pc EXCEPT ![t] = label]

Finish(t) ==
  /\ pc' = [pc EXCEPT ![t] = "idle"]
  /\ loc' = [loc EXCEPT ![t] = NoLoc]

\* get_session under sessions_lock
EnterSession(u) ==
  LET w == GetSession(sessions[u], disk[u], "ok")
  IN /\ sessions' = [sessions EXCEPT ![u] =
                       [present |-> TRUE, data |-> w.data, sel |-> w.sel]]
     /\ disk' = [disk EXCEPT ![u] = w.file]

\* handle_answer_callback: get_session and the parse of the callback data
AnswerBegin(t) ==
  /\ running
  /\ pc[t] = "idle"
  /\ \E u \in Users, question_id \in QuestionIds,
        selected_option \in 1..NumOptions :
       /\ EnterSession(u)
       /\ loc' = [loc EXCEPT ![t] = [NoLoc EXCEPT !.user = u,
                                       !.question_id = question_id,
                                       !.option = selected_option]]
  /\ SetPc(t, "a_check")
  /\ UNCHANGED <<running, faults, restarts, last, lock, issuedAt, draw>>

\* lines 806-810: get_last_question (locked) and the staleness check
AnswerCheck(t) ==
  /\ pc[t] = "a_check"
  /\ lock[loc[t].user] = "free"
  /\ LET lq == sessions[loc[t].user].data.last_question
     IN IF IsStale(lq, loc[t].question_id)
          THEN Finish(t)
          ELSE /\ loc' = [loc EXCEPT ![t].last_question = lq]
               /\ SetPc(t, "a_judge")
  /\ UNCHANGED <<sessions, disk, running, faults, restarts, last, lock,
               issuedAt, draw>>

\* lines 812-934: the verdict is computed and sent; no lock is held
AnswerJudge(t) ==
  /\ pc[t] = "a_judge"
  /\ LET u == loc[t].user
     IN IF JudgeRaises(World(sessions[u], disk[u]), loc[t].last_question,
                       loc[t].question_id, loc[t].option)
          THEN Finish(t)
          ELSE SetPc(t, "u_enter") /\ UNCHANGED loc
  /\ UNCHANGED <<sessions, disk, running, faults, restarts, last, lock,
               issuedAt, draw>>

\* update_question_stats: with self.lock, lines 152-153
UpdateEnter(t) ==
  /\ pc[t] = "u_enter"
  /\ lock[loc[t].user] = "free"
  /\ lock' = [lock EXCEPT ![loc[t].user] = t]
  /\ SetPc(t, "u_capture")
  /\ UNCHANGED <<sessions, disk, running, faults, restarts, last, loc,
               issuedAt, draw>>

\* lines 156-159: theme_stats = self.data['theme_stats'][theme]; a
\* self.data replaced since line 153 has no 'theme_stats' key (KeyError)
UpdateCapture(t) ==
  /\ pc[t] = "u_capture"
  /\ LET u == loc[t].user
     IN IF loc[t].detached
          THEN /\ Finish(t)
               /\ lock' = [lock EXCEPT ![u] = "free"]
               /\ UNCHANGED sessions
          ELSE /\ sessions' = [sessions EXCEPT ![u].data =
                                 InitThemeStats(@, loc[t].last_question.theme)]
               /\ SetPc(t, "u_incq")
               /\ UNCHANGED <<loc, lock>>
  /\ UNCHANGED <<disk, running, faults, restarts, last, issuedAt, draw>>

\* a statement on the captured theme_stats dict: it changes the session's
\* data unless self.data was replaced after the capture
OnCaptured(t, data) ==
  /\ sessions' = [sessions EXCEPT ![loc[t].user].data =
                    IF loc[t].detached THEN @ ELSE data]
  /\ UNCHANGED <<disk, running, faults, restarts, last, loc, lock,
               issuedAt, draw>>

\* lines 162-166
UpdateIncQ(t) ==
  /\ pc[t] = "u_incq"
  /\ OnCaptured(t, IncQuestionTotal(sessions[loc[t].user].data,
                                    loc[t].last_question.theme,
                                    loc[t].question_id))
  /\ SetPc(t, "u_inct")

\* line 167
UpdateIncT(t) ==
  /\ pc[t] = "u_inct"
  /\ OnCaptured(t, IncThemeTotal(sessions[loc[t].user].data,
                                 loc[t].last_question.theme))
  /\ SetPc(t, "u_incc")

\* lines 169-171
UpdateIncC(t) ==
  /\ pc[t] = "u_incc"
  /\ OnCaptured(t, IncCorrect(sessions[loc[t].user].data,
                              loc[t].last_question.theme,
                              loc[t].question_id,
                              loc[t].option
                                = loc[t].last_question.correct_option))
  /\ SetPc(t, "u_save")

\* line 178: save_session, then the lock is released
UpdateSave(t) ==
  /\ pc[t] = "u_save"
  /\ LET u == loc[t].user
     IN /\ disk' = [disk EXCEPT ![u] =
                      SaveSession(sessions[u].data, @, "ok")]
        /\ lock' = [lock EXCEPT ![u] = "free"]
  /\ SetPc(t, "a_clear")
  /\ UNCHANGED <<sessions, running, faults, restarts, last, loc, issuedAt, draw>>

\* line 938: clear_last_question (locked)
AnswerClear(t) ==
  /\ pc[t] = "a_clear"
  /\ lock[loc[t].user] = "free"
  /\ LET u == loc[t].user
         w == ClearLastQuestion(World(sessions[u], disk[u]), "ok")
     IN /\ sessions' = [sessions EXCEPT ![u].data = w.data]
        /\ disk' = [disk EXCEPT ![u] = w.file]
  /\ Finish(t)
  /\ UNCHANGED <<running, faults, restarts, last, lock, issuedAt, draw>>

\* handle_start: get_session
StartBegin(t) ==
  /\ running
  /\ pc[t] = "idle"
  /\ \E u \in Users :
       /\ EnterSession(u)
       /\ loc' = [loc EXCEPT ![t] = [NoLoc EXCEPT !.user = u]]
  /\ SetPc(t, "s_unlink")
  /\ UNCHANGED <<running, faults, restarts, last, lock, issuedAt, draw>>

\* reset_session, lines 135-142: the file is deleted under the lock
StartUnlink(t) ==
  /\ pc[t] = "s_unlink"
  /\ lock[loc[t].user] = "free"
  /\ disk' = [disk EXCEPT ![loc[t].user] = NoFile]
  /\ SetPc(t, "s_wipe")
  /\ UNCHANGED <<sessions, running, faults, restarts, last, loc, lock,
               issuedAt, draw>>

\* reset_session, line 145: self.data = {} with no lock held; a thread inside
\* update_question_stats keeps the dicts of the replaced data
StartWipe(t) ==
  /\ pc[t] = "s_wipe"
  /\ LET u == loc[t].user
     IN /\ sessions' = [sessions EXCEPT ![u].data = EmptyData]
        /\ loc' = [x \in Threads |->
                     IF /\ loc[x].user = u
                        /\ pc[x] \in {"u_capture", "u_incq", "u_inct",
                                      "u_incc"}
                       THEN [loc[x] EXCEPT !.detached = TRUE]
                       ELSE loc[x]]
  /\ SetPc(t, "s_save")
  /\ UNCHANGED <<disk, running, faults, restarts, last, lock, issuedAt, draw>>

\* reset_session, line 147: save_session with no lock held
StartSave(t) ==
  /\ pc[t] = "s_save"
  /\ disk' = [disk EXCEPT ![loc[t].user] =
                SaveSession(sessions[loc[t].user].data, @, "ok")]
  /\ Finish(t)
  /\ UNCHANGED <<sessions, running, faults, restarts, last, lock, issuedAt, draw>>

\* the process is killed at any point and started again
CrashRestart ==
  /\ running
  /\ restarts < MaxRestarts
  /\ restarts' = restarts + 1
  /\ sessions' = [u \in Users |-> NoSession]
  /\ pc' = [t \in Threads |-> "idle"]
  /\ loc' = [t \in Threads |-> NoLoc]
  /\ lock' = [u \in Users |-> "free"]
  /\ running' = StartupOk
  /\ UNCHANGED <<disk, faults, last, issuedAt, draw>>

NextSteps ==
  \/ \E t \in Threads : AnswerBegin(t)
  \/ \E t \in Threads : AnswerCheck(t)
  \/ \E t \in Threads : AnswerJudge(t)
  \/ \E t \in Threads : UpdateEnter(t)
  \/ \E t \in Threads : UpdateCapture(t)
  \/ \E t \in Threads : UpdateIncQ(t)
  \/ \E t \in Threads : UpdateIncT(t)
  \/ \E t \in Threads : UpdateIncC(t)
  \/ \E t \in Threads : UpdateSave(t)
  \/ \E t \in Threads : AnswerClear(t)
  \/ \E t \in Threads : StartBegin(t)
  \/ \E t \in Threads : StartUnlink(t)
  \/ \E t \in Threads : StartWipe(t)
  \/ \E t \in Threads : StartSave(t)

SpecSteps == InitSteps /\ [][NextSteps]_vars

NextCrash == NextSteps \/ CrashRestart

SpecCrash == InitSteps /\ [][NextCrash]_vars

\* --------------------------------------------- smart_get_question, alone
\* One call of smart_get_question on a session whose active theme is drawn
\* from the theme files validate_theme_data and QuestionSelector accept:
\* distinct integer ids, a string correct_answer, an optional wrong_answers
\* list that is not validated.

\* Largest number of questions of the drawn theme.
MaxQuestions == 2
\* Largest length of a wrong_answers list of the drawn theme.
MaxPool == 3
\* Largest number of correct answers recorded for one question.
MaxCorrect == 1

CorrectTexts == {"A", "B"}
PoolTexts == {"B", "X"}

Pools == UNION {[1..k -> PoolTexts] : k \in 0..MaxPool}

QuestionShapes ==
  {[correct_answer |-> c, has_wrong |-> FALSE, wrong_answers |-> <<>>] :
     c \in CorrectTexts}
  \cup [correct_answer : CorrectTexts, has_wrong : {TRUE},
        wrong_answers : Pools]

\* the lists of n questions of one theme file, ids 1..n in file order
QuestionLists(n) ==
  {[i \in 1..n |-> [id |-> i,
                    correct_answer |-> f[i].correct_answer,
                    has_wrong |-> f[i].has_wrong,
                    wrong_answers |-> f[i].wrong_answers]] :
     f \in [1..n -> QuestionShapes]}

\* session data after question i was answered correctly c[i] times
RECURSIVE Recorded(_, _, _, _)
Recorded(data, theme, c, i) ==
  IF i = 0 THEN data
  ELSE IF c[i] = 0 THEN Recorded(data, theme, c, i - 1)
  ELSE Recorded(UpdateQuestionStats(data, i, TRUE, theme), theme,
                [c EXCEPT ![i] = @ - 1], i)

InitSelect ==
  /\ \E n \in 1..MaxQuestions :
     \E questions \in QuestionLists(n) :
       \E c \in [1..n -> 0..MaxCorrect] :
         draw = [themes |-> [t \in {"t1"} |->
                              [name |-> "T1", questions |-> questions]],
                 data |-> Recorded(SetTheme([EmptyData EXCEPT
                                               !.has_user = TRUE], "t1"),
                                   "t1", c, Len(questions)),
                 drawn |-> FALSE,
                 result |-> RaisedValueError]
  /\ sessions = [u \in Users |-> NoSession]
  /\ disk = [u \in Users |-> NoFile]
  /\ running = TRUE
  /\ faults = 0
  /\ restarts = 0
  /\ last = NoAction
  /\ ThreadsIdle
  /\ issuedAt = [u \in Users |-> 0]

\* question = session.smart_get_question()
DrawQuestion ==
  /\ ~draw.drawn
  /\ \E r \in SmartGetQuestionIn(draw.themes, draw.data) :
       draw' = [draw EXCEPT !.drawn = TRUE, !.result = r]
  /\ UNCHANGED <<sessions, disk, running, faults, restarts, last, pc, loc,
                 lock, issuedAt>>

NextSelect == DrawQuestion

SpecSelect == InitSelect /\ [][NextSelect]_vars

\* ------------------------------------------------- statistics handlers
\* The two statistics handlers, invoked by either of two users from the
\* session states the other handlers leave behind.

StatUsers == {"u1", "u2"}

\* session data after up to MaxPrior judged answers, a possible change of
\* theme and a possible pending question
StatDatas ==
  LET themed == AnsweredUpTo(MaxPrior)
                  \cup {SetTheme(d, th) :
                          d \in AnsweredUpTo(MaxPrior), th \in ThemeTags}
  IN themed
       \cup UNION {{SetLastQuestion(d, r.question) :
                     r \in {x \in SmartGetQuestion(d) : ~x.raised}} :
                   d \in themed}

InitStats ==
  /\ \E ds \in [StatUsers -> StatDatas], present \in [StatUsers -> BOOLEAN] :
       /\ sessions = [u \in StatUsers |->
                        IF present[u]
                          THEN [present |-> TRUE, data |-> ds[u],
                                sel |-> ds[u].current_theme]
                          ELSE NoSession]
       /\ disk = [u \in StatUsers |-> Dump(ds[u])]
  /\ issuedAt = [u \in StatUsers |-> 0]
  /\ running = TRUE
  /\ faults = 0
  /\ restarts = 0
  /\ last = NoAction
  /\ ThreadsIdle
  /\ draw = NoDraw

\* the session files as the handler finds them after its get_session
FilesAfter(u, w) == [disk EXCEPT ![u] = w.file]

Stats(u) ==
  /\ running
  /\ last.op = "none"
  /\ LET w == GetSession(sessions[u], disk[u], "ok")
     IN \E r \in HandleStats(w, FilesAfter(u, w)) :
          Commit(u, r, [NoAction EXCEPT !.op = "stats"])

GlobalStats(u) ==
  /\ running
  /\ last.op = "none"
  /\ LET w == GetSession(sessions[u], disk[u], "ok")
     IN \E r \in HandleGlobalStats(w, FilesAfter(u, w)) :
          Commit(u, r, [NoAction EXCEPT !.op = "global_stats"])

NextStats ==
  \/ \E u \in StatUsers : Stats(u)
  \/ \E u \in StatUsers : GlobalStats(u)

SpecStats == InitStats /\ [][NextStats]_vars

\* ------------------------------------------------- the first action
\* The first action of a user after the process came up: get_session builds
\* the session from whatever the user's session file holds at that moment.

LoadDatas == StatDatas

InitLoad ==
  /\ sessions = [u \in Users |-> NoSession]
  /\ \E file \in {NoFile, Truncated} \cup {Dump(d) : d \in LoadDatas} :
       disk = [u \in Users |-> file]
  /\ running = TRUE
  /\ faults = 0
  /\ restarts = 0
  /\ last = NoAction
  /\ ThreadsIdle
  /\ issuedAt = [u \in Users |-> 0]
  /\ draw = NoDraw

FirstStart(u) == ~sessions[u].present /\ Start(u)
FirstMessage(u) == ~sessions[u].present /\ Message(u)
FirstNext(u) == ~sessions[u].present /\ NextQuestion(u)
FirstTheme(u) == ~sessions[u].present /\ ChangeTheme(u)
FirstAnswer(u) == ~sessions[u].present /\ SubmitAnswer(u)

NextLoad ==
  \/ \E u \in Users : FirstStart(u)
  \/ \E u \in Users : FirstMessage(u)
  \/ \E u \in Users : FirstNext(u)
  \/ \E u \in Users : FirstTheme(u)
  \/ \E u \in Users : FirstAnswer(u)

SpecLoad == InitLoad /\ [][NextLoad]_vars

\* ------------------------------------------- handlers under a failure
\* One action of a user in which get_session raises while it builds the
\* session, or the first call of the Telegram API made by the handler raises
\* (the first one outside a try block of its own: the failure of
\* edit_message_text at 872-881 is swallowed). The session-file writes of
\* these actions succeed.

\* the handlers whose body runs inside try / except Exception; the bodies of
\* handle_next_callback and handle_change_theme_callback are unprotected
GuardedHandlers == {"start", "message", "theme", "answer", "stats",
                    "global_stats"}

InitFail ==
  /\ \E d \in LoadDatas, present \in BOOLEAN :
       /\ sessions = [u \in Users |->
                        IF present
                          THEN [present |-> TRUE, data |-> d,
                                sel |-> d.current_theme]
                          ELSE NoSession]
       /\ disk = [u \in Users |-> Dump(d)]
  /\ running = TRUE
  /\ faults = 0
  /\ restarts = 0
  /\ last = NoAction
  /\ ThreadsIdle
  /\ issuedAt = [u \in Users |-> 0]
  /\ draw = NoDraw

\* An exception is raised in the handler; in_except: it is raised by the
\* API call of the handler's own except clause; reply_sent: the API call of
\* the except clause entered for it succeeds. The except clauses call
\* bot.send_message or bot.answer_callback_query themselves.
Escapes(handler, in_except, reply_sent) ==
  IF handler \in GuardedHandlers THEN in_except \/ ~reply_sent ELSE TRUE

Failed(u, handler, point, in_except, reply_sent, act) ==
  LET escaped == Escapes(handler, in_except, reply_sent)
  IN last' = [act EXCEPT !.op = handler, !.user = u, !.fault = point,
                         !.raised = TRUE, !.escaped = escaped,
                         !.api_up = reply_sent,
                         !.reply = IF escaped THEN <<>> ELSE <<"error">>]

\* UserSession.__init__ raises: at the mkdir calls of lines 74-75, before
\* anything is written, or at QuestionSelector() (98-103), after the stamped
\* document was saved; get_session registers no session
GetSessionFails(u, handler, act) ==
  /\ running
  /\ last.op = "none"
  /\ ~sessions[u].present
  /\ \E point \in {"mkdir", "selector"}, reply_sent \in BOOLEAN :
       /\ disk' = [disk EXCEPT ![u] =
                     IF point = "selector" THEN NewUserSession(@, "ok").file
                     ELSE @]
       /\ Failed(u, handler, point, FALSE, reply_sent, act)
  /\ UNCHANGED <<sessions, running, faults, restarts, pc, loc, lock,
                 issuedAt, draw>>

\* the first API call of the handler raises; w is the session as the
\* handler has left it by then
SendFails(u, handler, w, in_except, act) ==
  /\ running
  /\ last.op = "none"
  /\ sessions' = [sessions EXCEPT ![u] = [present |-> TRUE, data |-> w.data,
                                          sel |-> w.sel]]
  /\ disk' = [disk EXCEPT ![u] = w.file]
  /\ \E reply_sent \in BOOLEAN :
       Failed(u, handler, "send", in_except, reply_sent, act)
  /\ UNCHANGED <<running, faults, restarts, pc, loc, lock, issuedAt, draw>>

\* the session the handler works on, built by get_session when absent
Got(u) == GetSession(sessions[u], disk[u], "ok")

\* handle_start: reset_session precedes the welcome message
FailStart(u) ==
  \/ GetSessionFails(u, "start", NoAction)
  \/ SendFails(u, "start", ResetSession(Got(u), TRUE, "ok"), FALSE, NoAction)

\* handle_all_messages: every message it or generate_and_send_question sends
\* precedes set_last_question
FailMessage(u) ==
  \/ GetSessionFails(u, "message", NoAction)
  \/ SendFails(u, "message", Got(u), FALSE, NoAction)

\* handle_next_callback
FailNext(u) ==
  \/ GetSessionFails(u, "next", NoAction)
  \/ SendFails(u, "next", Got(u), FALSE, NoAction)

\* handle_change_theme_callback
FailChangeTheme(u) ==
  \/ GetSessionFails(u, "change_theme", NoAction)
  \/ SendFails(u, "change_theme", Got(u), FALSE, NoAction)

\* handle_theme_callback: the theme is set and saved (768-771) before the
\* first message (778)
FailTheme(u) ==
  \E tag \in CallbackTags :
    LET act == [NoAction EXCEPT !.tag = tag]
        w == Got(u)
        w2 == IF tag \in ThemeTags
                THEN SaveW([w EXCEPT !.sel = SelectorSetTheme(@, tag),
                                     !.data = [SetTheme(@, tag)
                                                 EXCEPT !.has_user = TRUE]],
                           "ok")
                ELSE w
    IN \/ GetSessionFails(u, "theme", act)
       \/ SendFails(u, "theme", w2, FALSE, act)

\* handle_answer_callback: every API call of the body precedes
\* update_question_stats (936-938); when the judging raises, the first API
\* call is the one of the except clause (942)
FailAnswer(u) ==
  \E question_id \in QuestionIds, selected_option \in 1..NumOptions :
    LET act == [NoAction EXCEPT !.question_id = question_id,
                                !.option = selected_option]
        w == Got(u)
        last_question == w.data.last_question
    IN \/ GetSessionFails(u, "answer", act)
       \/ SendFails(u, "answer", w,
                    /\ ~IsStale(last_question, question_id)
                    /\ JudgeRaises(w, last_question, question_id,
                                   selected_option),
                    act)

\* handle_stats_callback
FailStats(u) ==
  \/ GetSessionFails(u, "stats", NoAction)
  \/ SendFails(u, "stats", Got(u), FALSE, NoAction)

\* handle_global_stats_callback: after the KeyError of line 637 the first
\* API call is the one of the except clause (663)
FailGlobalStats(u) ==
  \/ GetSessionFails(u, "global_stats", NoAction)
  \/ SendFails(u, "global_stats", Got(u),
               \E r \in HandleGlobalStats(Got(u), FilesAfter(u, Got(u))) :
                 r.raised,
               NoAction)

NextFail ==
  \/ \E u \in Users : FailStart(u)
  \/ \E u \in Users : FailMessage(u)
  \/ \E u \in Users : FailNext(u)
  \/ \E u \in Users : FailChangeTheme(u)
  \/ \E u \in Users : FailTheme(u)
  \/ \E u \in Users : FailAnswer(u)
  \/ \E u \in Users : FailStats(u)
  \/ \E u \in Users : FailGlobalStats(u)

SpecFail == InitFail /\ [][NextFail]_vars

\* ------------------------------------------------- the leaderboard order
\* Line 619 of get_global_stats on a drawn list user_stats, the entries in
\* the order in which glob returned the session files.

\* Largest number of entries of user_stats.
MaxEntries == 3
\* Largest total of one entry.
MaxTotal == 3

\* the entries lines 601-612 build: they have total > 0
StatEntries(n) ==
  {e \in [1..n -> [total : 1..MaxTotal, correct : 0..MaxTotal]] :
     \A i \in 1..n : e[i].correct <= e[i].total}

\* the percentage correct / total as the key
KeyLessByPercentage(a, b) == a.correct * b.total < b.correct * a.total

\* the key of line 619 compared as Python compares the tuples
\* (x['correct'], x['total'])
KeyLess(a, b) ==
  \/ a.correct < b.correct
  \/ a.correct = b.correct /\ a.total < b.total

\* sorted(user_stats, key=..., reverse=True): descending by key, entries with
\* equal keys in their original order
RECURSIVE InsertDescending(_, _)
InsertDescending(x, list) ==
  IF list = <<>> THEN <<x>>
  ELSE IF KeyLess(Head(list), x) THEN <<x>> \o list
  ELSE <<Head(list)>> \o InsertDescending(x, Tail(list))

RECURSIVE SortedDescending(_)
SortedDescending(list) ==
  IF list = <<>> THEN <<>>
  ELSE InsertDescending(list[Len(list)],
                        SortedDescending(SubSeq(list, 1, Len(list) - 1)))

InitBoard ==
  /\ \E n \in 0..MaxEntries : \E user_stats \in StatEntries(n) :
       draw = [user_stats |-> user_stats, drawn |-> FALSE, result |-> <<>>]
  /\ sessions = [u \in Users |-> NoSession]
  /\ disk = [u \in Users |-> NoFile]
  /\ running = TRUE
  /\ faults = 0
  /\ restarts = 0
  /\ last = NoAction
  /\ ThreadsIdle
  /\ issuedAt = [u \in Users |-> 0]

SortBoard ==
  /\ ~draw.drawn
  /\ draw' = [draw EXCEPT !.drawn = TRUE,
                          !.result = SortedDescending(draw.user_stats)]
  /\ UNCHANGED <<sessions, disk, running, faults, restarts, last, pc, loc,
                 lock, issuedAt>>

NextBoard == SortBoard

SpecBoard == InitBoard /\ [][NextBoard]_vars

\* ------------------------------------------- the issued question, stored
\* smart_get_question on a drawn theme for a user without recorded answers
\* (every question is a candidate), and set_last_question of what it
\* returned, as generate_and_send_question does (505, 530).

\* Largest number of questions of the drawn theme.
MaxBank == 2

\* wrong_answers lists of every length random.sample can take whole
BankPools == UNION {[1..k -> PoolTexts] : k \in 0..(NumOptions - 1)}

BankLists(n) ==
  {[i \in 1..n |-> [id |-> i,
                    correct_answer |-> c[i],
                    has_wrong |-> w[i] # <<"none">>,
                    wrong_answers |-> IF w[i] = <<"none">> THEN <<>>
                                      ELSE w[i]]] :
     c \in [1..n -> CorrectTexts],
     w \in [1..n -> BankPools \cup {<<"none">>}]}

InitBank ==
  /\ \E n \in 1..MaxBank : \E questions \in BankLists(n) :
       draw = [themes |-> [t \in {"t1"} |->
                            [name |-> "T1", questions |-> questions]],
               data |-> SetTheme([EmptyData EXCEPT !.has_user = TRUE], "t1"),
               drawn |-> FALSE,
               result |-> RaisedValueError]
  /\ sessions = [u \in Users |->
                   [present |-> TRUE,
                    data |-> SetTheme([EmptyData EXCEPT !.has_user = TRUE],
                                      "t1"),
                    sel |-> "t1"]]
  /\ disk = [u \in Users |-> Dump(sessions[u].data)]
  /\ running = TRUE
  /\ faults = 0
  /\ restarts = 0
  /\ last = NoAction
  /\ ThreadsIdle
  /\ issuedAt = [u \in Users |-> 0]

\* session.set_last_question(question)
StoreQuestion(u) ==
  /\ draw.drawn
  /\ ~draw.result.raised
  /\ ~HasLastQuestion(sessions[u].data)
  /\ \E o \in SaveOutcomes :
       LET w == SaveW([World(sessions[u], disk[u]) EXCEPT
                         !.data = SetLastQuestion(@, draw.result.question)],
                      o)
       IN /\ sessions' = [sessions EXCEPT ![u].data = w.data]
          /\ disk' = [disk EXCEPT ![u] = w.file]
  /\ UNCHANGED <<running, faults, restarts, last, pc, loc, lock, issuedAt,
                 draw>>

NextBank ==
  \/ DrawQuestion
  \/ \E u \in Users : StoreQuestion(u)

SpecBank == InitBank /\ [][NextBank]_vars

\* ------------------------------------------------- the judged answer
\* Lines 812-835 of handle_answer_callback for a pending question of a drawn
\* pair of themes: the selected text and the question whose explanation
\* follows a wrong answer. The question selector's theme is the session's
\* current_theme; the pending question is of that theme, or of the theme the
\* user had before (a theme change whose question was not issued).

\* Largest number of questions of a drawn theme.
MaxJudged == 2

\* themes whose questions have no wrong_answers: the distractors are the
\* correct answers of the theme's other questions
JudgedLists(n) ==
  {[i \in 1..n |-> [id |-> i, correct_answer |-> c[i],
                    has_wrong |-> FALSE, wrong_answers |-> <<>>]] :
     c \in [1..n -> CorrectTexts]}

JudgedThemes ==
  {[t \in {"t1", "t2"} |-> [name |-> t, questions |-> qs[t]]] :
     qs \in [{"t1", "t2"} ->
               UNION {JudgedLists(n) : n \in 1..MaxJudged}]}

InitJudge ==
  /\ \E themes \in JudgedThemes, issued \in {"t1", "t2"},
        current_theme \in {"t1", "t2"} :
       \E r \in SmartGetQuestionIn(
                  themes, SetTheme([EmptyData EXCEPT !.has_user = TRUE],
                                   issued)) :
         /\ ~r.raised
         /\ \E selected_option \in 1..Len(r.question.options) :
              draw = [themes |-> themes,
                      data |-> SetLastQuestion(
                                 SetTheme([EmptyData EXCEPT
                                             !.has_user = TRUE],
                                          current_theme),
                                 r.question),
                      selected_option |-> selected_option,
                      drawn |-> FALSE,
                      result |-> NoExplained]
  /\ sessions = [u \in Users |-> NoSession]
  /\ disk = [u \in Users |-> NoFile]
  /\ running = TRUE
  /\ faults = 0
  /\ restarts = 0
  /\ last = NoAction
  /\ ThreadsIdle
  /\ issuedAt = [u \in Users |-> 0]

\* the text of the option the user selected (816)
SelectedAnswer == draw.data.last_question.options[draw.selected_option]

\* selected_answer_data = next(...)
JudgeAnswer ==
  /\ ~draw.drawn
  /\ draw' = [draw EXCEPT
                !.drawn = TRUE,
                !.result = ExplainedQuestion(
                             draw.themes, draw.data.current_theme,
                             SelectedAnswer,
                             draw.data.last_question.question_id)]
  /\ UNCHANGED <<sessions, disk, running, faults, restarts, last, pc, loc,
                 lock, issuedAt>>

NextJudge == JudgeAnswer

SpecJudge == InitJudge /\ [][NextJudge]_vars

\* ------------------------------------------- the locks, step by step
\* get_session and the session methods as two worker threads run them for
\* two users, one step per lock operation and per file operation. The
\* handlers are handle_next_callback and handle_global_stats_callback; the
\* users' theme, when they have one, is t2. issuedAt[u] is the number of
\* answers user u has recorded (no handler here changes it).

\* sessions_lock, next to the users' UserSession.lock
RegistryLock == "sessions_lock"

LockNames == StatUsers \cup {RegistryLock}

\* a handler's local variables: the user, the handler, the UserSession being
\* built, the question to store, the theme read
LockLoc == [user |-> None, op |-> "none", session |-> NoSession,
            question |-> NoQuestion, theme |-> None]

LockDatas ==
  {SetTheme(d, th) :
     d \in {x \in AnsweredUpTo(MaxPrior) :
              DOMAIN x.theme_stats \subseteq {"t2"}},
     th \in {None, "t2"}}

\* no call of get_global_stats is observed
NoBoard == [theme |-> None, result |-> {}, drawn |-> FALSE]

InitLocks ==
  /\ \E ds \in [StatUsers -> LockDatas] :
       /\ disk = [u \in StatUsers |-> Dump(ds[u])]
       /\ issuedAt = [u \in StatUsers |-> TotalAnswers(ds[u])]
  /\ sessions = [u \in StatUsers |-> NoSession]
  /\ pc = [t \in Threads |-> "idle"]
  /\ loc = [t \in Threads |-> LockLoc]
  /\ lock = [n \in LockNames |-> "free"]
  /\ running = TRUE
  /\ faults = 0
  /\ restarts = 0
  /\ last = NoAction
  /\ draw = NoBoard

Done(t) ==
  /\ pc' = [pc EXCEPT ![t] = "idle"]
  /\ loc' = [loc EXCEPT ![t] = LockLoc]

\* a callback arrives and a worker thread starts its handler
HandlerBegin(t) ==
  /\ pc[t] = "idle"
  /\ \E u \in StatUsers, op \in {"next", "global_stats"} :
       loc' = [loc EXCEPT ![t] = [LockLoc EXCEPT !.user = u, !.op = op]]
  /\ SetPc(t, "g_enter")
  /\ UNCHANGED <<sessions, disk, running, faults, restarts, last, lock,
                 issuedAt, draw>>

\* a get_session that enters without taking sessions_lock
GetEnterNoLock(t) ==
  /\ pc[t] = "g_enter"
  /\ SetPc(t, IF sessions[loc[t].user].present THEN "g_return" ELSE "g_load")
  /\ UNCHANGED <<sessions, disk, running, faults, restarts, last, loc, lock,
                 issuedAt, draw>>

\* get_session: with sessions_lock (447) and the test of line 452
GetEnter(t) ==
  /\ pc[t] = "g_enter"
  /\ lock[RegistryLock] = "free"
  /\ lock' = [lock EXCEPT ![RegistryLock] = t]
  /\ SetPc(t, IF sessions[loc[t].user].present THEN "g_return" ELSE "g_load")
  /\ UNCHANGED <<sessions, disk, running, faults, restarts, last, loc,
                 issuedAt, draw>>

\* UserSession.__init__, lines 80-94: the file is read and the user info
\* stamped
GetLoad(t) ==
  /\ pc[t] = "g_load"
  /\ loc' = [loc EXCEPT ![t].session =
               [present |-> TRUE,
                data |-> [LoadFile(disk[loc[t].user]) EXCEPT
                            !.has_user = TRUE],
                sel |-> None]]
  /\ SetPc(t, "g_open")
  /\ UNCHANGED <<sessions, disk, running, faults, restarts, last, lock,
                 issuedAt, draw>>

\* save_session of line 95: open(session_file, 'w') truncates the file
GetOpen(t) ==
  /\ pc[t] = "g_open"
  /\ disk' = [disk EXCEPT ![loc[t].user] = Truncated]
  /\ SetPc(t, "g_dump")
  /\ UNCHANGED <<sessions, running, faults, restarts, last, loc, lock,
                 issuedAt, draw>>

\* save_session of line 95: json.dump writes the document
GetDump(t) ==
  /\ pc[t] = "g_dump"
  /\ disk' = [disk EXCEPT ![loc[t].user] = Dump(loc[t].session.data)]
  /\ SetPc(t, "g_theme")
  /\ UNCHANGED <<sessions, running, faults, restarts, last, loc, lock,
                 issuedAt, draw>>

\* line 457: session.get_theme() takes the new session's lock
GetThemeLock(t) ==
  /\ pc[t] = "g_theme"
  /\ lock[loc[t].user] = "free"
  /\ lock' = [lock EXCEPT ![loc[t].user] = t]
  /\ SetPc(t, "g_restore")
  /\ UNCHANGED <<sessions, disk, running, faults, restarts, last, loc,
                 issuedAt, draw>>

\* get_theme returns and releases the session's lock; lines 458-460 restore
\* the selector's theme
GetRestore(t) ==
  /\ pc[t] = "g_restore"
  /\ lock' = [lock EXCEPT ![loc[t].user] = "free"]
  /\ loc' = [loc EXCEPT ![t].session.sel =
               IF loc[t].session.data.current_theme # None
                 THEN SelectorSetTheme(None,
                                       loc[t].session.data.current_theme)
                 ELSE None]
  /\ SetPc(t, "g_insert")
  /\ UNCHANGED <<sessions, disk, running, faults, restarts, last, issuedAt,
                 draw>>

\* the registry lock is kept: get_session does not leave its with block
GetReturnKeepsLock(t) ==
  /\ pc[t] \in {"g_insert", "g_return"}
  /\ sessions' = [sessions EXCEPT ![loc[t].user] =
                    IF pc[t] = "g_insert" THEN loc[t].session ELSE @]
  /\ SetPc(t, IF loc[t].op = "next" THEN "n_draw" ELSE "b_theme")
  /\ UNCHANGED <<disk, running, faults, restarts, last, loc, lock, issuedAt,
                 draw>>

\* lines 462-463: sessions[user.id] = session for a new session; the return
\* leaves the with block and releases sessions_lock
GetReturn(t) ==
  /\ pc[t] \in {"g_insert", "g_return"}
  /\ sessions' = [sessions EXCEPT ![loc[t].user] =
                    IF pc[t] = "g_insert" THEN loc[t].session ELSE @]
  /\ lock' = [lock EXCEPT ![RegistryLock] = "free"]
  /\ SetPc(t, IF loc[t].op = "next" THEN "n_draw" ELSE "b_theme")
  /\ UNCHANGED <<disk, running, faults, restarts, last, loc, issuedAt,
                 draw>>

\* generate_and_send_question up to the messages sent: the theme prompt, or
\* smart_get_question, which takes and releases the session's lock
NextDraw(t) ==
  /\ pc[t] = "n_draw"
  /\ LET u == loc[t].user
     IN IF sessions[u].sel = None
          THEN Done(t)
          ELSE /\ lock[u] = "free"
               /\ \E r \in SmartGetQuestion(sessions[u].data) :
                    IF r.raised
                      THEN Done(t)
                      ELSE /\ loc' = [loc EXCEPT ![t].question = r.question]
                           /\ SetPc(t, "n_store")
  /\ UNCHANGED <<sessions, disk, running, faults, restarts, last, lock,
                 issuedAt, draw>>

\* set_last_question: with self.lock, line 119
NextStore(t) ==
  /\ pc[t] = "n_store"
  /\ lock[loc[t].user] = "free"
  /\ lock' = [lock EXCEPT ![loc[t].user] = t]
  /\ sessions' = [sessions EXCEPT ![loc[t].user].data =
                    SetLastQuestion(@, loc[t].question)]
  /\ SetPc(t, "n_open")
  /\ UNCHANGED <<disk, running, faults, restarts, last, loc, issuedAt,
                 draw>>

\* save_session of line 121: open(session_file, 'w')
NextOpen(t) ==
  /\ pc[t] = "n_open"
  /\ disk' = [disk EXCEPT ![loc[t].user] = Truncated]
  /\ SetPc(t, "n_dump")
  /\ UNCHANGED <<sessions, running, faults, restarts, last, loc, lock,
                 issuedAt, draw>>

\* save_session of line 121: json.dump; set_last_question returns and
\* releases the session's lock
NextDump(t) ==
  /\ pc[t] = "n_dump"
  /\ disk' = [disk EXCEPT ![loc[t].user] =
                Dump(sessions[loc[t].user].data)]
  /\ lock' = [lock EXCEPT ![loc[t].user] = "free"]
  /\ Done(t)
  /\ UNCHANGED <<sessions, running, faults, restarts, last, issuedAt, draw>>

\* handle_global_stats_callback, line 629: session.get_theme()
BoardTheme(t) ==
  /\ pc[t] = "b_theme"
  /\ lock[loc[t].user] = "free"
  /\ loc' = [loc EXCEPT ![t].theme =
               sessions[loc[t].user].data.current_theme]
  /\ SetPc(t, "b_read")
  /\ UNCHANGED <<sessions, disk, running, faults, restarts, last, lock,
                 issuedAt, draw>>

\* line 630: get_global_stats(current_theme) reads the session files; no
\* lock is taken
BoardRead(t) ==
  /\ pc[t] = "b_read"
  /\ draw' = [theme |-> loc[t].theme,
              result |-> GetGlobalStats(disk, loc[t].theme),
              drawn |-> TRUE]
  /\ Done(t)
  /\ UNCHANGED <<sessions, disk, running, faults, restarts, last, lock,
                 issuedAt>>

\* the steps of a handler that has started
HandlerStep(t) ==
  \/ GetEnter(t)
  \/ GetLoad(t)
  \/ GetOpen(t)
  \/ GetDump(t)
  \/ GetThemeLock(t)
  \/ GetRestore(t)
  \/ GetReturn(t)
  \/ NextDraw(t)
  \/ NextStore(t)
  \/ NextOpen(t)
  \/ NextDump(t)
  \/ BoardTheme(t)
  \/ BoardRead(t)

NextLocks ==
  \/ \E t \in Threads : HandlerBegin(t)
  \/ \E t \in Threads : HandlerStep(t)

SpecLocks == InitLocks /\ [][NextLocks]_vars

\* a thread that can take its next step, or can take it again and again,
\* does take it: a thread waiting for a lock that keeps being released gets
\* the lock
SpecLocksFair ==
  SpecLocks /\ \A t \in Threads : SF_vars(HandlerStep(t))

\* ---------------------------------- QuestionManager: the sampling weights
\* question_manager.py (and the same code in old_bot.py): one user's
\* statistics per question, changed by update_statistics, and the weights
\* get_random_question derives from them for random.choices. The weights
\* are exact fractions num / den with den > 0.

\* Largest total of one question in the user's statistics.
MaxSeen == 10

\* the questions of questions.json
WeighedIds == {1, 2, 3}

Frac(n, d) == [num |-> n, den |-> d]
FracAdd(a, b) == Frac(a.num * b.den + b.num * a.den, a.den * b.den)
FracSub(a, b) == Frac(a.num * b.den - b.num * a.den, a.den * b.den)
FracMul(a, b) == Frac(a.num * b.num, a.den * b.den)
FracLeq(a, b) == a.num * b.den <= b.num * a.den
FracLess(a, b) == a.num * b.den < b.num * a.den

\* a weight that grows with the share of correct answers
WeightBySuccessRate(stats) ==
  IF stats.total = 0 THEN Frac(1, 1)
  ELSE FracAdd(Frac(1, 5),
               FracMul(Frac(4, 5), Frac(stats.correct, stats.total)))

\* lines 88-92: 1.0 for an unseen question, else 0.2 + 0.8 * error_rate
\* with error_rate = 1 - correct / total
Weight(stats) ==
  IF stats.total = 0 THEN Frac(1, 1)
  ELSE LET error_rate == FracSub(Frac(1, 1), Frac(stats.correct, stats.total))
       IN FracAdd(Frac(1, 5), FracMul(Frac(4, 5), error_rate))

\* _get_user_stats for a new user: every question at 0 / 0
NewUserStats == [q \in WeighedIds |-> [correct |-> 0, total |-> 0]]

NoWeights == [q \in WeighedIds |-> Frac(0, 1)]

InitWeigh ==
  /\ draw = [stats |-> NewUserStats, drawn |-> FALSE, weights |-> NoWeights,
             selected |-> 0]
  /\ sessions = [u \in Users |-> NoSession]
  /\ disk = [u \in Users |-> NoFile]
  /\ running = TRUE
  /\ faults = 0
  /\ restarts = 0
  /\ last = NoAction
  /\ ThreadsIdle
  /\ issuedAt = [u \in Users |-> 0]

\* update_statistics(user_id, question_id, is_correct)
UpdateStatistics ==
  /\ \E question_id \in WeighedIds, is_correct \in BOOLEAN :
       /\ draw.stats[question_id].total < MaxSeen
       /\ draw' = [stats |-> [draw.stats EXCEPT
                      ![question_id].total = @ + 1,
                      ![question_id].correct = IF is_correct THEN @ + 1
                                               ELSE @],
                   drawn |-> FALSE, weights |-> NoWeights, selected |-> 0]
  /\ UNCHANGED <<sessions, disk, running, faults, restarts, last, pc, loc,
                 lock, issuedAt>>

\* get_random_question up to random.choices, which returns a question of
\* positive weight
GetRandomQuestion ==
  /\ ~draw.drawn
  /\ LET weights == [q \in WeighedIds |-> Weight(draw.stats[q])]
     IN \E selected \in {q \in WeighedIds : weights[q].num > 0} :
          draw' = [draw EXCEPT !.drawn = TRUE, !.weights = weights,
                               !.selected = selected]
  /\ UNCHANGED <<sessions, disk, running, faults, restarts, last, pc, loc,
                 lock, issuedAt>>

NextWeigh == UpdateStatistics \/ GetRandomQuestion

SpecWeigh == InitWeigh /\ [][NextWeigh]_vars

\* ------------------------------- QuestionManager: get_global_statistics
\* question_manager.py 311-348 on drawn statistics: self.stats holds the
\* users in the order of RankedUsers, bot.get_chat gives each user's display
\* name or raises (None).

\* the user ids of self.stats, in the order of the dict
RankedUsers == <<1, 2, 3>>

\* "@username" or first_name of a chat
DisplayNames == {"anna", "@bob"}

\* the entries of get_global_statistics beyond this many are cut (348)
RankLimit == 20

\* user_stats[user_name] = entry on a dict kept as the list of its items: an
\* existing key keeps its place and takes the new value
DictPut(items, entry) ==
  IF \E i \in 1..Len(items) : items[i].user_name = entry.user_name
    THEN [i \in 1..Len(items) |->
            IF items[i].user_name = entry.user_name THEN entry ELSE items[i]]
    ELSE Append(items, entry)

\* lines 316-337: the loop over self.stats.items() up to the n-th user;
\* users without answers and users whose get_chat raises are skipped
RECURSIVE CollectUserStats(_, _, _)
CollectUserStats(stats, names, n) ==
  IF n = 0 THEN <<>>
  ELSE LET user_id == RankedUsers[n]
           before == CollectUserStats(stats, names, n - 1)
       IN IF stats[user_id].total > 0 /\ names[user_id] # None
            THEN DictPut(before, [user_name |-> names[user_id],
                                  total |-> stats[user_id].total,
                                  correct |-> stats[user_id].correct])
            ELSE before

\* lines 341-348: sorted by (correct, total), reverse, and cut
GetGlobalStatistics(stats, names) ==
  LET sorted_stats ==
        SortedDescending(CollectUserStats(stats, names, Len(RankedUsers)))
  IN SubSeq(sorted_stats, 1, Min2(Len(sorted_stats), RankLimit))

RankedIds == {RankedUsers[i] : i \in 1..Len(RankedUsers)}

InitRanks ==
  /\ \E stats \in [RankedIds -> [total : 0..MaxTotal, correct : 0..MaxTotal]],
        names \in [RankedIds -> DisplayNames \cup {None}] :
       /\ \A u \in RankedIds : stats[u].correct <= stats[u].total
       /\ draw = [stats |-> stats, names |-> names, drawn |-> FALSE,
                  result |-> <<>>]
  /\ sessions = [u \in Users |-> NoSession]
  /\ disk = [u \in Users |-> NoFile]
  /\ running = TRUE
  /\ faults = 0
  /\ restarts = 0
  /\ last = NoAction
  /\ ThreadsIdle
  /\ issuedAt = [u \in Users |-> 0]

ListRanks ==
  /\ ~draw.drawn
  /\ draw' = [draw EXCEPT !.drawn = TRUE,
                          !.result = GetGlobalStatistics(draw.stats,
                                                         draw.names)]
  /\ UNCHANGED <<sessions, disk, running, faults, restarts, last, pc, loc,
                 lock, issuedAt>>

NextRanks == ListRanks

SpecRanks == InitRanks /\ [][NextRanks]_vars

\* ------------------------------------------- the presentations of a chat
\* One user with theme t1 selected presses 'next' and the answer buttons of
\* the messages in the chat. Every question message stays in the chat with
\* its buttons "answer:<question_id>:<idx>" (lines 520-527); draw.shown lists
\* the presentations sent, draw.clicked the one whose button was pressed
\* last and draw.pending the last_question the handler found then.

\* Largest number of question messages in the chat.
MaxShown == 2

InitShown ==
  /\ draw = [shown |-> <<>>, clicked |-> 0, pending |-> NoQuestion]
  /\ sessions = [u \in Users |->
                   [present |-> TRUE,
                    data |-> SetTheme([EmptyData EXCEPT !.has_user = TRUE],
                                      "t1"),
                    sel |-> "t1"]]
  /\ disk = [u \in Users |-> Dump(sessions[u].data)]
  /\ running = TRUE
  /\ faults = 0
  /\ restarts = 0
  /\ last = NoAction
  /\ ThreadsIdle
  /\ issuedAt = [u \in Users |-> 0]

\* a handler's result for user u, the writes succeeding
Settle(u, r, act) ==
  /\ sessions' = [sessions EXCEPT ![u].data = r.w.data, ![u].sel = r.w.sel]
  /\ disk' = [disk EXCEPT ![u] = r.w.file]
  /\ last' = [act EXCEPT !.user = u, !.built = "memory",
                         !.reply = r.reply, !.raised = r.raised]

\* handle_next_callback: a new question message
PressNext(u) ==
  /\ Len(draw.shown) < MaxShown
  /\ \E r \in HandleNext(World(sessions[u], disk[u]), "ok") :
       /\ Settle(u, r, [NoAction EXCEPT !.op = "next"])
       /\ draw' = [draw EXCEPT
                     !.shown = IF r.reply = <<"question">>
                                 THEN Append(@, r.w.data.last_question)
                                 ELSE @]
  /\ UNCHANGED <<running, faults, restarts, pc, loc, lock, issuedAt>>

\* handle_answer_callback for a button of the k-th question message
PressAnswer(u) ==
  /\ \E k \in 1..Len(draw.shown) :
     \E idx \in 1..Len(draw.shown[k].options) :
     \E r \in HandleAnswer(World(sessions[u], disk[u]),
                           draw.shown[k].question_id, idx, "ok", "ok") :
       /\ Settle(u, r, [NoAction EXCEPT
                          !.op = "answer",
                          !.question_id = draw.shown[k].question_id,
                          !.option = idx])
       /\ draw' = [draw EXCEPT !.clicked = k,
                               !.pending = sessions[u].data.last_question]
  /\ UNCHANGED <<running, faults, restarts, pc, loc, lock, issuedAt>>

NextShown ==
  \/ \E u \in Users : PressNext(u)
  \/ \E u \in Users : PressAnswer(u)

SpecShown == InitShown /\ [][NextShown]_vars

\* --------------------------------------------- the answer handler's calls
\* handle_answer_callback for a button of the pending question, with the
\* outcomes of its API calls in their order: edit_message_text (872-881, a
\* failure is logged and swallowed), the verdict message (898, 910-932),
\* answer_callback_query (934), and only then update_question_stats and
\* clear_last_question (937-938). draw.revealed: the user has been shown
\* which option of the pending presentation is correct; draw.before: the
\* answers recorded when the button was pressed.

NoReveal == [revealed |-> FALSE, before |-> 0]

InitReveal ==
  /\ draw = NoReveal
  /\ sessions = [u \in Users |->
                   [present |-> TRUE,
                    data |-> SetTheme([EmptyData EXCEPT !.has_user = TRUE],
                                      "t1"),
                    sel |-> "t1"]]
  /\ disk = [u \in Users |-> Dump(sessions[u].data)]
  /\ running = TRUE
  /\ faults = 0
  /\ restarts = 0
  /\ last = NoAction
  /\ ThreadsIdle
  /\ issuedAt = [u \in Users |-> 0]

\* handle_next_callback: a new presentation
RevealNext(u) ==
  /\ \E r \in HandleNext(World(sessions[u], disk[u]), "ok") :
       Settle(u, r, [NoAction EXCEPT !.op = "next"])
  /\ draw' = NoReveal
  /\ UNCHANGED <<running, faults, restarts, pc, loc, lock, issuedAt>>

\* the places of handle_answer_callback at which an API call can raise
ApiFaults == {"none", "send", "callback"}

RevealAnswer(u) ==
  LET w == World(sessions[u], disk[u])
      last_question == w.data.last_question
      question_id == last_question.question_id
  IN /\ HasLastQuestion(w.data)
     /\ TotalAnswers(w.data) < MaxAnswers
     /\ \E selected_option \in 1..Len(last_question.options),
           edit_ok \in BOOLEAN, fault \in ApiFaults, reply_sent \in BOOLEAN :
          LET act == [NoAction EXCEPT !.op = "answer",
                                      !.question_id = question_id,
                                      !.option = selected_option,
                                      !.fault = fault]
              judge_raises == JudgeRaises(w, last_question, question_id,
                                          selected_option)
              raised == judge_raises \/ fault # "none"
              verdict_sent == ~judge_raises /\ fault # "send"
          IN /\ judge_raises => fault = "none"
             /\ raised \/ reply_sent
             /\ IF raised
                  THEN Settle(u, Result(w, IF reply_sent THEN <<"error">>
                                           ELSE <<>>, TRUE),
                              [act EXCEPT !.escaped = ~reply_sent,
                                          !.api_up = reply_sent])
                  ELSE \E r \in HandleAnswer(w, question_id, selected_option,
                                             "ok", "ok") :
                         Settle(u, r, act)
             /\ draw' = [revealed |-> edit_ok \/ verdict_sent,
                         before |-> TotalAnswers(w.data)]
     /\ UNCHANGED <<running, faults, restarts, pc, loc, lock, issuedAt>>

NextReveal ==
  \/ \E u \in Users : RevealNext(u)
  \/ \E u \in Users : RevealAnswer(u)

SpecReveal == InitReveal /\ [][NextReveal]_vars

\* --------------------------------- old_bot.py: the options of a question
\* send_question and handle_answer of old_bot.py with the one QuestionManager
\* of the process: current_options maps a question id to the options stored
\* by the latest send_question of any user. draw.shown is the question
\* message each user has in the chat, draw.answered the latest answer
\* resolved by get_stored_option.

OldUsers == {"a", "b"}

\* questions.json: questions of one tag
OldQuestions == <<[id |-> 1, correct_answer |-> "A"],
                  [id |-> 2, correct_answer |-> "B"]>>

OldIds == {OldQuestions[i].id : i \in 1..Len(OldQuestions)}

NoShown == [question_id |-> 0, options |-> <<>>]

NoAnswered == [user |-> None, question_id |-> 0, option_index |-> 0,
               selected_answer |-> None]

\* get_random_question, lines 118-135, then random.shuffle(options) of
\* send_question: the orders in which question q can be shown
OldOptions(q) ==
  LET same_tag_answers == OtherAnswers(OldQuestions, q)
      random_options ==
        IF Len(same_tag_answers) > 0
          THEN Sample(same_tag_answers, Min2(3, Len(same_tag_answers)))
          ELSE {<<>>}
  IN UNION {Shuffles(r \o <<q.correct_answer>>) : r \in random_options}

\* get_stored_option(question_id, option_index), option_index from 0; None
\* after the KeyError or IndexError
GetStoredOption(current_options, question_id, option_index) ==
  IF /\ question_id \in DOMAIN current_options
     /\ option_index < Len(current_options[question_id])
    THEN current_options[question_id][option_index + 1]
    ELSE None

InitOptions ==
  /\ draw = [current_options |-> [q \in {} |-> <<>>],
             shown |-> [u \in OldUsers |-> NoShown],
             answered |-> NoAnswered]
  /\ sessions = [u \in Users |-> NoSession]
  /\ disk = [u \in Users |-> NoFile]
  /\ running = TRUE
  /\ faults = 0
  /\ restarts = 0
  /\ last = NoAction
  /\ ThreadsIdle
  /\ issuedAt = [u \in Users |-> 0]

\* send_question: store_question_options(question_data['id'], options) and
\* the message with the buttons "<id>:<i>"
SendQuestion(u) ==
  /\ \E i \in 1..Len(OldQuestions) :
     \E options \in OldOptions(OldQuestions[i]) :
       LET question_id == OldQuestions[i].id
       IN draw' = [draw EXCEPT
                     !.current_options =
                        [q \in DOMAIN @ \cup {question_id} |->
                           IF q = question_id THEN options ELSE @[q]],
                     !.shown[u] = [question_id |-> question_id,
                                   options |-> options],
                     !.answered = NoAnswered]
  /\ UNCHANGED <<sessions, disk, running, faults, restarts, last, pc, loc,
                 lock, issuedAt>>

\* handle_answer for a button of the user's question message
OldHandleAnswer(u) ==
  /\ draw.shown[u] # NoShown
  /\ \E option_index \in 0..(Len(draw.shown[u].options) - 1) :
       draw' = [draw EXCEPT
                  !.answered =
                     [user |-> u,
                      question_id |-> draw.shown[u].question_id,
                      option_index |-> option_index,
                      selected_answer |->
                        GetStoredOption(draw.current_options,
                                        draw.shown[u].question_id,
                                        option_index)]]
  /\ UNCHANGED <<sessions, disk, running, faults, restarts, last, pc, loc,
                 lock, issuedAt>>

NextOptions ==
  \/ \E u \in OldUsers : SendQuestion(u)
  \/ \E u \in OldUsers : OldHandleAnswer(u)

SpecOptions == InitOptions /\ [][NextOptions]_vars

\* ------------------------------------------------------------------- claims
ThemeTotal(data, theme) ==
  IF theme \in DOMAIN data.theme_stats
    THEN data.theme_stats[theme].total ELSE 0

QuestionTotal(data, theme, question_id) ==
  IF /\ theme \in DOMAIN data.theme_stats
     /\ Str(question_id) \in DOMAIN data.theme_stats[theme].question_stats
    THEN data.theme_stats[theme].question_stats[Str(question_id)].total
    ELSE 0

\* C1: every answer callback whose question_id is the pending question's id
\* and whose option is one of the shown options adds 1 to that question's
\* total and to its theme's total and leaves no pending question.
C1_MatchingAnswerRecorded ==
  [][\A u \in Users :
       (/\ last'.op = "answer"
        /\ last'.user = u
        /\ HasLastQuestion(Eff(u))
        /\ Eff(u).last_question.question_id = last'.question_id
        /\ last'.option \in 1..Len(Eff(u).last_question.options))
       => LET th == Eff(u).last_question.theme
              after == sessions'[u].data
          IN /\ ThemeTotal(after, th) = ThemeTotal(Eff(u), th) + 1
             /\ QuestionTotal(after, th, last'.question_id)
                  = QuestionTotal(Eff(u), th, last'.question_id) + 1
             /\ ~HasLastQuestion(after)]_vars

\* C3: an answer callback is rejected as stale, with theme_stats, pending
\* question and active theme unchanged, whenever the session has no pending
\* question or the pending question's id differs from the submitted one.
C3_StaleAnswerRejected ==
  [][\A u \in Users :
       (/\ last'.op = "answer"
        /\ last'.user = u
        /\ \/ Eff(u).last_question = NoQuestion
           \/ Eff(u).last_question.question_id # last'.question_id)
       => /\ last'.reply = <<"stale">>
          /\ sessions'[u].data.theme_stats = Eff(u).theme_stats
          /\ sessions'[u].data.last_question = Eff(u).last_question
          /\ sessions'[u].data.current_theme = Eff(u).current_theme
          /\ sessions'[u].sel = EffSel(u)]_vars

\* a second submit for a question that has just been judged was rejected
C3_Witness ==
  \E u \in Users :
    /\ last.op = "answer"
    /\ last.user = u
    /\ last.reply = <<"stale">>
    /\ ~HasLastQuestion(sessions[u].data)
    /\ QuestionTotal(sessions[u].data, sessions[u].data.current_theme,
                     last.question_id) > 0

\* C7: a session file is never left empty or truncated by a save.
C7_FileNeverTruncated ==
  \A u \in Users : disk[u].kind # "truncated"

\* C8: after start has completed the session has no pending question, no
\* stored theme and no theme set in its question selector.
C8_StartLeavesNoTheme ==
  \A u \in Users :
    (last.op = "start" /\ last.user = u)
      => /\ ~HasLastQuestion(sessions[u].data)
         /\ sessions[u].data.current_theme = None
         /\ sessions[u].sel = None

\* C9: a question request (text message or 'next') for a session with no
\* stored theme is answered with the theme-selection prompt only and leaves
\* the session as it was.
C9_NoThemeRePrompts ==
  [][\A u \in Users :
       (/\ last'.op \in {"message", "next"}
        /\ last'.user = u
        /\ Eff(u).current_theme = None)
       => /\ last'.reply = <<"theme_prompt">>
          /\ sessions'[u].data = Eff(u)
          /\ sessions'[u].sel = EffSel(u)]_vars

\* C10: a theme callback with a tag that is not a loaded theme is rejected
\* without raising and leaves active theme, pending question and
\* theme_stats as they were.
C10_UnknownThemeNoChange ==
  [][\A u \in Users :
       (/\ last'.op = "theme"
        /\ last'.user = u
        /\ last'.tag \notin ThemeTags)
       => /\ ~last'.raised
          /\ sessions'[u].data.current_theme = Eff(u).current_theme
          /\ sessions'[u].sel = EffSel(u)
          /\ sessions'[u].data.last_question = Eff(u).last_question
          /\ sessions'[u].data.theme_stats = Eff(u).theme_stats]_vars


\* sum of total over the question_stats of one theme's stats
SumQuestionTotals(theme_stat) ==
  LET qs == theme_stat.question_stats
      RECURSIVE Sum(_)
      Sum(S) == IF S = {} THEN 0
                ELSE LET k == CHOOSE x \in S : TRUE
                     IN qs[k].total + Sum(S \ {k})
  IN Sum(DOMAIN qs)

StatsConsistent(data) ==
  \A th \in DOMAIN data.theme_stats :
    LET st == data.theme_stats[th]
    IN /\ SumQuestionTotals(st) = st.total
       /\ st.correct <= st.total
       /\ \A k \in DOMAIN st.question_stats :
            st.question_stats[k].correct <= st.question_stats[k].total

\* C2: whenever no thread is inside a locked session method, every theme of
\* the session's theme_stats has sum(question_stats total) = total, and
\* correct <= total for the theme and for each of its questions.
C2_StatsConsistent ==
  \A u \in Users :
    lock[u] = "free" => StatsConsistent(sessions[u].data)

\* C4: a question issued to the user adds at most 1 to the totals of
\* theme_stats, also when two answer callbacks for it run concurrently.
C4_CountedAtMostOnce ==
  \A u \in Users : TotalAnswers(sessions[u].data) <= issuedAt[u] + 1

\* C5: no session file holds the counted outcome of a question together
\* with that question still stored as last_question.
C5_NoCountedAndPendingOnDisk ==
  \A u \in Users :
    (disk[u].kind = "doc" /\ HasLastQuestion(disk[u].data))
      => TotalAnswers(disk[u].data) <= issuedAt[u]

\* a thread between its handler's first access to the session and its last
\* save of it
MidAction(t) ==
  pc[t] \in {"a_judge", "u_enter", "u_capture", "u_incq", "u_inct",
             "u_incc", "u_save", "a_clear", "s_wipe", "s_save"}

\* C6: two actions of the same user never interleave: while one is between
\* its first read of the session and its last persist, no other is.
C6_NoInterleaving ==
  \A t1, t2 \in Threads :
    (t1 # t2 /\ MidAction(t1) /\ MidAction(t2))
      => loc[t1].user # loc[t2].user

\* the question ids smart_get_question can return for a session
SelectableIds(data) ==
  {r.question.question_id : r \in {x \in SmartGetQuestion(data) : ~x.raised}}

\* C11: in every session with an active theme, every question of the theme
\* is one of the questions smart_get_question can return.
C11_EveryQuestionSelectable ==
  \A u \in Users :
    LET d == sessions[u].data
    IN d.current_theme \in ThemeTags
         => \A i \in 1..Len(Themes[d.current_theme].questions) :
              Themes[d.current_theme].questions[i].id \in SelectableIds(d)

\* the questions of the theme a call of smart_get_question worked on
DrawnQuestions == draw.themes[draw.data.current_theme].questions

\* the question of the drawn theme that the call returned
DrawnQuestion ==
  CHOOSE q \in {DrawnQuestions[i] : i \in 1..Len(DrawnQuestions)} :
    q.id = draw.result.question.question_id

\* every wrong_answers list of the drawn theme has pairwise distinct entries
\* and does not hold its own question's correct answer
DrawnPoolsClean ==
  \A n \in 1..Len(DrawnQuestions) :
    LET q == DrawnQuestions[n]
    IN /\ \A i, j \in 1..Len(q.wrong_answers) :
            i # j => q.wrong_answers[i] # q.wrong_answers[j]
       /\ \A i \in 1..Len(q.wrong_answers) :
            q.wrong_answers[i] # q.correct_answer

\* C12: a call of smart_get_question on a theme with at least one question
\* does not raise and returns min(num_options, available distractors + 1)
\* options.
C12_NeverFailsForDistractors ==
  (draw.drawn /\ Len(DrawnQuestions) >= 1 /\ DrawnPoolsClean)
    => /\ ~draw.result.raised
       /\ Len(draw.result.question.options)
            = Min2(NumOptions,
                   Len(DrawnQuestion.wrong_answers)
                     + Len(OtherAnswers(DrawnQuestions, DrawnQuestion)) + 1)

\* C13: the options of a question generated from a theme whose
\* wrong_answers lists are clean are pairwise distinct texts, and only the
\* option at correct_option is the question's correct answer.
C13_OptionsDistinct ==
  (draw.drawn /\ ~draw.result.raised /\ DrawnPoolsClean)
    => LET options == draw.result.question.options
       IN /\ \A i, j \in 1..Len(options) :
               i # j => options[i] # options[j]
          /\ \A i \in 1..Len(options) :
               options[i] = DrawnQuestion.correct_answer
                 => i = draw.result.question.correct_option

\* C14: every pending question stored in a session has at least 2 options.
C14_PendingHasTwoOptions ==
  \A u \in Users :
    HasLastQuestion(sessions[u].data)
      => Len(sessions[u].data.last_question.options) >= 2

\* the session data get_session builds from a user's file after a restart
Reloaded(u) == NewUserSession(disk[u], "ok").data

\* C15: after start has completed, get_statistics of the user's session
\* reports no theme, and so does get_statistics of the session a restarted
\* process rebuilds from the user's file.
C15_ResetZeroesStats ==
  \A u \in Users :
    (last.op = "start" /\ last.user = u)
      => /\ GetStatistics(sessions[u].data) = {}
         /\ GetStatistics(Reloaded(u)) = {}

\* the operations handled for a user
HandlerOps == {"start", "message", "next", "theme", "answer"}

\* C16: after every completed action of a user, the session get_session
\* would rebuild from the user's file after a restart has the active theme,
\* the theme_stats and the pending question of the session in memory.
C16_RestartReproducesSession ==
  \A u \in Users :
    (last.op \in HandlerOps /\ last.user = u)
      => /\ Reloaded(u).current_theme = sessions[u].data.current_theme
         /\ Reloaded(u).theme_stats = sessions[u].data.theme_stats
         /\ Reloaded(u).last_question = sessions[u].data.last_question

\* every counter of theme_stats a is at most the same counter of b
CountersLeq(a, b) ==
  \A th \in DOMAIN a :
    /\ th \in DOMAIN b
    /\ a[th].total <= b[th].total
    /\ a[th].correct <= b[th].correct
    /\ \A k \in DOMAIN a[th].question_stats :
         /\ k \in DOMAIN b[th].question_stats
         /\ a[th].question_stats[k].total <= b[th].question_stats[k].total
         /\ a[th].question_stats[k].correct
              <= b[th].question_stats[k].correct

\* C17: from one state to the next in which the process is up, no total or
\* correct counter of the theme_stats an action of the user would find
\* decreases, unless the step is a start of that user.
C17_CountersNeverDecrease ==
  [][\A u \in Users :
       (running' /\ ~(last'.op = "start" /\ last'.user = u))
         => CountersLeq(Eff(u).theme_stats, Eff(u)'.theme_stats)]_vars

StatsOps == {"stats", "global_stats"}

C19_StatsNeverError ==
  last.op \in StatsOps => (~last.raised /\ last.reply # <<"error">>)

\* C20: an action whose session is built from a session file that cannot be
\* deserialized does not raise; it is handled as for a user without a file:
\* the session has no stats, and no theme or pending question other than
\* what the action itself selects.
C20_CorruptFileStartsEmpty ==
  \A u \in Users :
    (last.op \in HandlerOps /\ last.user = u /\ last.built = "truncated")
      => /\ ~last.raised
         /\ sessions[u].present
         /\ sessions[u].data.theme_stats = EmptyDict
         /\ last.op = "theme"
              => /\ sessions[u].data.current_theme
                      = (IF last.tag \in ThemeTags THEN last.tag ELSE None)
                 /\ sessions[u].data.last_question.theme
                      \in {None, last.tag}
         /\ last.op # "theme"
              => /\ sessions[u].data.current_theme = None
                 /\ ~HasLastQuestion(sessions[u].data)
                 /\ last.reply \in {<<"welcome">>, <<"theme_prompt">>,
                                    <<"stale">>}

\* a theme was chosen and a question issued in a session built from a
\* damaged file
C20_Witness ==
  \E u \in Users :
    /\ last.op = "theme"
    /\ last.user = u
    /\ last.built = "truncated"
    /\ sessions[u].data.current_theme = "t1"
    /\ HasLastQuestion(sessions[u].data)

\* C21: a start-up of the process never aborts because of a user's session
\* file: after every restart the bot is running, also when a session file
\* was left undecodable by an interrupted save.
C21_StartupSurvivesCorruptSession ==
  last.op = "restart" => running

\* C22: no exception leaves a handler uncaught: whatever is raised while an
\* action is handled, a get_session failure and a failing API call included,
\* ends in the handler, which replies to the user (as far as the API accepts
\* a reply after the failure).
C22_NoExceptionEscapes ==
  (last.op # "none" /\ last.api_up)
    => (~last.escaped /\ last.reply # <<>>)

\* C23: the list get_global_stats returns is ordered by correct descending,
\* ties by total descending: an entry listed before another has more correct
\* answers, or as many and at least the total; the percentage plays no part.
C23_OrderedByCorrectThenTotal ==
  draw.drawn =>
    /\ Len(draw.result) = Len(draw.user_stats)
    /\ \A i, j \in 1..Len(draw.result) :
         i < j => \/ draw.result[i].correct > draw.result[j].correct
                  \/ /\ draw.result[i].correct = draw.result[j].correct
                     /\ draw.result[i].total >= draw.result[j].total

\* a sorted list in which an entry with more correct answers stands before
\* one with a strictly higher percentage that came first in user_stats
C23_Witness ==
  /\ draw.drawn
  /\ Len(draw.result) = 2
  /\ draw.result[1].correct > draw.result[2].correct
  /\ KeyLessByPercentage(draw.result[1], draw.result[2])
  /\ draw.result[1] = draw.user_stats[2]

\* correct_option of a generated question is a 1-based position of options
\* that holds the correct answer of the theme's question with that id
ValidCorrectOption(question, questions) ==
  /\ question.correct_option \in 1..Len(question.options)
  /\ \E i \in 1..Len(questions) :
       /\ questions[i].id = question.question_id
       /\ question.options[question.correct_option]
            = questions[i].correct_answer

\* C24: for the question smart_get_question returns and for every
\* last_question stored in a session or its file, 1 <= correct_option <=
\* len(options) and options[correct_option - 1] is the correct answer of the
\* question with that id in that theme.
C24_CorrectOptionValid ==
  /\ (draw.drawn /\ ~draw.result.raised)
       => /\ ValidCorrectOption(draw.result.question, DrawnQuestions)
          /\ draw.result.question.theme = draw.data.current_theme
  /\ \A u \in Users :
       /\ HasLastQuestion(sessions[u].data)
            => ValidCorrectOption(sessions[u].data.last_question,
                                  draw.themes[sessions[u].data.last_question
                                                .theme].questions)
       /\ (disk[u].kind = "doc" /\ HasLastQuestion(disk[u].data))
            => ValidCorrectOption(disk[u].data.last_question,
                                  draw.themes[disk[u].data.last_question
                                                .theme].questions)

\* a stored question whose options hold the correct text twice, the correct
\* answer not in the first place of the list built before the shuffle
C24_Witness ==
  \E u \in Users :
    /\ disk[u].kind = "doc"
    /\ HasLastQuestion(disk[u].data)
    /\ LET question == disk[u].data.last_question
       IN /\ Len(question.options) = NumOptions
          /\ question.correct_option > 1
          /\ \E i \in 1..Len(question.options) :
               /\ i # question.correct_option
               /\ question.options[i]
                    = question.options[question.correct_option]

\* C25: the question whose explanation follows the selected text is a
\* question of the session's active theme, its correct_answer is the
\* selected text and its id is not the id of the judged question; no
\* question of another theme is used.
C25_ExplanationFromActiveTheme ==
  (draw.drawn /\ draw.result # NoExplained)
    => /\ draw.result.theme = draw.data.current_theme
       /\ LET q == draw.themes[draw.result.theme].questions[draw.result.index]
          IN /\ q.correct_answer = SelectedAnswer
             /\ q.id # draw.data.last_question.question_id

\* an explanation found in the active theme while the other theme has a
\* question with the same answer text, and the judged question itself has
\* that answer text too
C25_Witness ==
  /\ draw.drawn
  /\ draw.result # NoExplained
  /\ \E th \in DOMAIN draw.themes :
       /\ th # draw.data.current_theme
       /\ \E i \in 1..Len(draw.themes[th].questions) :
            draw.themes[th].questions[i].correct_answer = SelectedAnswer
  /\ \E i \in 1..Len(draw.themes[draw.data.current_theme].questions) :
       LET q == draw.themes[draw.data.current_theme].questions[i]
       IN /\ q.id = draw.data.last_question.question_id
          /\ q.correct_answer = SelectedAnswer
          /\ draw.data.last_question.theme = draw.data.current_theme

\* the positions of get_session at which the next statement reads or writes
\* the session file
FileIoPcs == {"g_load", "g_open", "g_dump"}

\* C26: a thread that holds sessions_lock holds no session's lock and is not
\* at a read or write of a session file.
C26_RegistryLockOnlyForRegistry ==
  \A t \in Threads :
    lock[RegistryLock] = t
      => /\ pc[t] \notin FileIoPcs
         /\ \A u \in StatUsers : lock[u] # t

\* C27: no interleaving of the handlers deadlocks on sessions_lock and the
\* sessions' locks: a handler that has started, whatever lock it waits for,
\* comes to its end, and it holds no lock then.
C27_NoDeadlock ==
  \A t \in Threads :
    (pc[t] # "idle")
      ~> (pc[t] = "idle" /\ \A n \in LockNames : lock[n] # t)

\* a thread waits for sessions_lock while the other thread, inside
\* get_session, holds it together with a session's lock
C27_Witness ==
  \E t, o \in Threads :
    /\ pc[t] = "g_enter"
    /\ lock[RegistryLock] = o
    /\ o # t
    /\ \E u \in StatUsers : lock[u] = o

\* the positions at which the next statement changes self.data
DataWritePcs == {"u_capture", "u_incq", "u_inct", "u_incc", "s_wipe"}

\* the positions at which the next statement is a save_session
FileWritePcs == {"u_save", "s_save"}

\* C28: a thread about to change a user's session data or to write that
\* user's session file holds that user's session lock, and no two threads
\* are at a write of the same session file at the same time.
C28_WritesUnderSessionLock ==
  /\ \A t \in Threads :
       pc[t] \in DataWritePcs \cup FileWritePcs => lock[loc[t].user] = t
  /\ \A t1, t2 \in Threads :
       (t1 # t2 /\ pc[t1] \in FileWritePcs /\ pc[t2] \in FileWritePcs)
         => loc[t1].user # loc[t2].user

\* C29: a call of get_global_stats lists every user who has recorded answers
\* in the requested scope, also while that user's session file is being
\* written by save_session: the file is read as it was before or as it is
\* after the write.
C29_LeaderboardReadsWholeRecords ==
  draw.drawn
    => \A u \in StatUsers :
         issuedAt[u] > 0 => \E e \in draw.result : e.user_id = u

\* C30: after every completed action of a user the user's session file
\* exists and holds the user's user_id and last_update stamp, right after
\* /start included (stated for runs in which no write of a session file has
\* failed).
C30_RecordAlwaysStamped ==
  \A u \in Users :
    (faults = 0 /\ last.op \in HandlerOps /\ last.user = u)
      => /\ disk[u].kind = "doc"
         /\ disk[u].data.has_user

\* what the handler of action act leaves for user u when every write of the
\* session file succeeds
FaultFree(u, act) ==
  LET w == GetSession(sessions[u], disk[u], "ok")
  IN CASE act.op = "start" -> HandleStart(w, TRUE, "ok")
       [] act.op = "message" -> HandleAllMessages(w, "ok")
       [] act.op = "next" -> HandleNext(w, "ok")
       [] act.op = "theme" -> HandleTheme(w, act.tag, "ok", "ok", "ok")
       [] act.op = "answer" -> HandleAnswer(w, act.question_id, act.option,
                                            "ok", "ok")
       [] OTHER -> {}

\* C31: a failed write of the session file in save_session does not reach
\* the caller: a handler in which a write fails ends with no exception, with
\* the same reply and the same in-memory session (data and selector theme) as
\* the handler would leave had every write succeeded, and the session stays
\* in the registry for the user's later actions.
C31_SaveFailureSwallowed ==
  [][faults' > faults =>
       /\ sessions'[last'.user].present
       /\ \E r \in FaultFree(last'.user, last') :
            /\ sessions'[last'.user].data = r.w.data
            /\ sessions'[last'.user].sel = r.w.sel
            /\ last'.reply = r.reply
            /\ last'.raised = r.raised]_vars

\* a write failed, the file is behind the session, and an answer of the user
\* was judged and recorded from the session in memory
C31_Witness ==
  /\ faults > 0
  /\ last.op = "answer"
  /\ last.reply = <<"verdict">>
  /\ sessions[last.user].present
  /\ TotalAnswers(sessions[last.user].data) > 0
  /\ disk[last.user] # Dump(sessions[last.user].data)

\* C32: get_random_question weighs a question 1.0 when its total is 0 and
\* 0.2 + 0.8 * (1 - correct / total) otherwise: every weight lies in
\* [0.2, 1.0], an unseen question has the largest weight, and of two seen
\* questions the one with the lower correct / total ratio never has the
\* smaller weight (and has the larger one when its ratio is strictly lower).
C32_WeightsFollowErrorRate ==
  draw.drawn =>
    \A a \in WeighedIds :
      LET sa == draw.stats[a]
          wa == draw.weights[a]
      IN /\ wa.den > 0
         /\ FracLeq(Frac(1, 5), wa) /\ FracLeq(wa, Frac(1, 1))
         /\ sa.total = 0 => wa.num = wa.den
         /\ sa.total > 0 =>
              wa.num * 5 * sa.total = (5 * sa.total - 4 * sa.correct) * wa.den
         /\ \A b \in WeighedIds :
              LET sb == draw.stats[b]
                  wb == draw.weights[b]
              IN /\ sa.total = 0 => FracLeq(wb, wa)
                 /\ (sa.total > 0 /\ sb.total > 0) =>
                      /\ sa.correct * sb.total <= sb.correct * sa.total
                           => FracLeq(wb, wa)
                      /\ sa.correct * sb.total < sb.correct * sa.total
                           => FracLess(wb, wa)

\* the statistics A 0/0, B 1/10, C 9/10 and their weights
\* 1.0 >= 0.92 > 0.28
C32_Witness ==
  /\ draw.drawn
  /\ draw.stats[1] = [correct |-> 0, total |-> 0]
  /\ draw.stats[2] = [correct |-> 1, total |-> 10]
  /\ draw.stats[3] = [correct |-> 9, total |-> 10]
  /\ FracLeq(draw.weights[2], draw.weights[1])
  /\ FracLess(draw.weights[3], draw.weights[2])
  /\ draw.weights[2].num * 25 = 23 * draw.weights[2].den
  /\ draw.weights[3].num * 25 = 7 * draw.weights[3].den

\* the users of the drawn statistics with at least one answer
Answered == {u \in RankedIds : draw.stats[u].total > 0}

\* C33: get_global_statistics of question_manager.py lists every user with
\* at least one answer (up to its limit) as an entry of its own carrying
\* that user's name and totals, also when two users have the same display
\* name; stated for the calls in which get_chat succeeds for every user.
C33_OneEntryPerUser ==
  (draw.drawn /\ \A u \in RankedIds : draw.names[u] # None) =>
    /\ Len(draw.result) = Min2(Cardinality(Answered), RankLimit)
    /\ Cardinality(Answered) <= RankLimit =>
         \A u \in Answered :
           \E i \in 1..Len(draw.result) :
             /\ draw.result[i].user_name = draw.names[u]
             /\ draw.result[i].total = draw.stats[u].total
             /\ draw.result[i].correct = draw.stats[u].correct

\* C34: a button of a question message is judged only against the
\* presentation it was made for: when the pressed button belongs to a
\* presentation other than the pending one (other options or another
\* correct_option, as after the question was skipped and drawn again), the
\* answer is rejected as stale. Stated for the answers whose judging does
\* not raise.
C34_OldPresentationRejected ==
  (/\ last.op = "answer"
   /\ ~last.raised
   /\ draw.clicked # 0
   /\ draw.shown[draw.clicked] # draw.pending)
    => last.reply = <<"stale">>

\* C35: whenever a session holds a pending question, the question is of the
\* session's active theme: its theme equals data['current_theme'] and
\* question_selector.current_theme.
C35_PendingOfActiveTheme ==
  \A u \in Users :
    (sessions[u].present /\ HasLastQuestion(sessions[u].data)) =>
      /\ sessions[u].data.last_question.theme = sessions[u].data.current_theme
      /\ sessions[u].data.last_question.theme = sessions[u].sel

\* C36: once handle_answer_callback has shown which option of the pending
\* presentation is correct (edited keyboard or verdict message), the answer
\* is recorded and last_question is cleared, also when a later API call of
\* the handler raises. Stated for the answers whose judging itself does not
\* raise.
C36_RevealedIsRecorded ==
  \A u \in Users :
    (/\ last.op = "answer"
     /\ last.user = u
     /\ draw.revealed
     /\ last.raised => last.fault # "none")
      => /\ ~HasLastQuestion(sessions[u].data)
         /\ TotalAnswers(sessions[u].data) = draw.before + 1

\* C37: a free-text message (handle_all_messages) of a user whose session
\* holds a pending question leaves the session as it was: the reply asks to
\* use the buttons, last_question, theme_stats, current_theme and the
\* selector's theme are those of before, and a session of the registry and
\* its file are not changed at all.
C37_MessageKeepsPending ==
  [][\A u \in Users :
       (/\ last'.op = "message"
        /\ last'.user = u
        /\ HasLastQuestion(Eff(u)))
         => /\ last'.reply = <<"use_buttons">>
            /\ sessions'[u].present
            /\ sessions'[u].data.last_question = Eff(u).last_question
            /\ sessions'[u].data.theme_stats = Eff(u).theme_stats
            /\ sessions'[u].data.current_theme = Eff(u).current_theme
            /\ sessions'[u].sel = EffSel(u)
            /\ sessions[u].present =>
                 /\ sessions'[u] = sessions[u]
                 /\ disk'[u] = disk[u]]_vars

\* a message was answered with the request to use the buttons while a
\* question was pending in a session that has recorded answers
C37_Witness ==
  /\ last.op = "message"
  /\ last.reply = <<"use_buttons">>
  /\ HasLastQuestion(sessions[last.user].data)
  /\ TotalAnswers(sessions[last.user].data) > 0

\* the places of get_session at which a thread holds a UserSession it has
\* built and not yet put into the registry
BuildPcs == {"g_open", "g_dump", "g_theme", "g_restore", "g_insert"}

Building(t, u) == pc[t] \in BuildPcs /\ loc[t].user = u

\* C38: the registry holds at most one UserSession per user: at no time do
\* two threads build a session of the same user, a session is built (and the
\* file loaded) only for a user who has none in the registry, and a session
\* in the registry is never replaced by another, so concurrent first actions
\* of a user all get the object the first of them registered.
C38_OneSessionPerUser ==
  [][\A u \in StatUsers :
       /\ \A t1, t2 \in Threads :
            (Building(t1, u)' /\ Building(t2, u)') => t1 = t2
       /\ \A t \in Threads :
            /\ (pc'[t] \in BuildPcs \cup {"g_load"} /\ loc'[t].user = u)
                 => ~sessions'[u].present
            /\ (pc[t] = "g_return" /\ pc'[t] # "g_return" /\ loc[t].user = u)
                 => /\ sessions[u].present
                    /\ sessions'[u] = sessions[u]
            /\ (sessions[u].present /\ loc[t].user = u)
                 => ~(pc[t] = "g_insert" /\ pc'[t] # "g_insert")]_vars

\* two first actions of one user at once: a thread is building the user's
\* session while the other waits at get_session for the registry lock
C38_Witness ==
  \E t1, t2 \in Threads :
    /\ t1 # t2
    /\ pc[t1] = "g_insert"
    /\ pc[t2] = "g_enter"
    /\ loc[t1].user = loc[t2].user
    /\ ~sessions[loc[t1].user].present

\* C39: in old_bot.py the text get_stored_option resolves for a user's
\* answer is the text shown to that user at the pressed position, also when
\* another user was sent the same question in another order in between.
C39_ResolvedIsShown ==
  draw.answered.user # None =>
    draw.answered.selected_answer =
      draw.shown[draw.answered.user].options[draw.answered.option_index + 1]

====
